---- MODULE Spec2Model ----
(***************************************************************************)
(* Model of the OpenAPI pruner: the component closure builder              *)
(* (collect_referenced_components) and the circular reference resolver     *)
(* (build_reference_graph, detect_cycles, find_breaking_points,            *)
(* remove_circular_references).                                            *)
(*                                                                         *)
(* A Python string is a sequence of atoms.  An atom is a run of characters *)
(* that holds no '/' and is never cut by the program; the '/' character is *)
(* an atom of its own, so that joining with '/' and splitting on '/' are   *)
(* modelled by what they do.  A document node is a record                  *)
(*   [k |-> "dict" | "list" | "str", s |-> string, e |-> entries]          *)
(* where an entry is [key |-> string, v |-> node] (a list entry has the    *)
(* empty key): dicts keep their insertion order, as Python's do.           *)
(***************************************************************************)
EXTENDS Integers, Sequences, FiniteSets, TLC

\* ---------------------------------------------------------------- bounds
MaxRefs == 4
MaxSpecial == 1
MaxNodes == 3
MaxEdges == 4

\* --------------------------------------------------------------- strings
Digits == <<"0", "1", "2", "3", "4", "5", "6", "7", "8", "9">>

DigitSet == {Digits[i] : i \in 1..10}

DigitVal(a) == (CHOOSE i \in 1..10 : Digits[i] = a) - 1

SeqRange(s) == {s[i] : i \in 1..Len(s)}

\* str.isdigit(): at least one character, all of them digits
IsDigit(part) == part # <<>> /\ \A i \in 1..Len(part) : part[i] \in DigitSet

RECURSIVE ToInt(_)
\* int(key) of a string of digits
ToInt(part) ==
  IF part = <<>> THEN 0
  ELSE 10 * ToInt(SubSeq(part, 1, Len(part) - 1)) + DigitVal(part[Len(part)])

RECURSIVE StrOfNat(_)
\* str(i), f"{i}" of a list index
StrOfNat(n) ==
  IF n < 10 THEN <<Digits[n + 1]>>
  ELSE StrOfNat(n \div 10) \o <<Digits[(n % 10) + 1]>>

RECURSIVE Split(_)
\* s.split('/')
Split(s) ==
  IF \A i \in 1..Len(s) : s[i] # "/" THEN <<s>>
  ELSE LET i == CHOOSE j \in 1..Len(s) :
                  s[j] = "/" /\ \A h \in 1..(j - 1) : s[h] # "/"
       IN <<SubSeq(s, 1, i - 1)>> \o Split(SubSeq(s, i + 1, Len(s)))

RECURSIVE Strip(_)
\* s.strip('/')
Strip(s) ==
  IF s = <<>> THEN s
  ELSE IF s[1] = "/" THEN Strip(Tail(s))
  ELSE IF s[Len(s)] = "/" THEN Strip(SubSeq(s, 1, Len(s) - 1))
  ELSE s

\* s.startswith(prefix)
StartsWith(s, prefix) ==
  Len(s) >= Len(prefix) /\ SubSeq(s, 1, Len(prefix)) = prefix

\* new_path = f"{path}/{key}" if path else key
JoinPath(path, key) == IF path # <<>> THEN path \o <<"/">> \o key ELSE key

\* the names of schemas and graph nodes
Letters == <<"A", "B", "C", "D", "E", "F">>

Name(i) == <<Letters[i]>>

Names == {Name(i) : i \in 1..MaxNodes}

\* ----------------------------------------------------------------- nodes
StrNode(s) == [k |-> "str", s |-> s, e |-> <<>>]

DictNode(entries) == [k |-> "dict", s |-> <<>>, e |-> entries]

ListNode(items) ==
  [k |-> "list", s |-> <<>>, e |-> [i \in 1..Len(items) |-> [key |-> <<>>, v |-> items[i]]]]

Entry(key, v) == [key |-> key, v |-> v]

IsDict(obj) == obj.k = "dict"

IsList(obj) == obj.k = "list"

IsStr(obj) == obj.k = "str"

\* key in obj
HasKey(obj, key) == \E i \in 1..Len(obj.e) : obj.e[i].key = key

KeyIndex(obj, key) == CHOOSE i \in 1..Len(obj.e) : obj.e[i].key = key

\* obj[key]
Get(obj, key) == obj.e[KeyIndex(obj, key)].v

\* obj.get(key, {})
GetOr(obj, key) ==
  IF IsDict(obj) /\ HasKey(obj, key) THEN Get(obj, key) ELSE DictNode(<<>>)

RefKey == <<"$ref">>

\* the context argument of build_reference_graph
SchemaContext == <<"#", "/", "components", "/", "schemas", "/">>

\* f"#/components/schemas/{dst_schema}"
SchemaRef(name) == SchemaContext \o name

\* ------------------------------------------------- build_reference_graph
\* location_key = f"{current_schema} -> {ref_name}"
LocationKey(src, dst) == src \o <<" -> ">> \o dst

\* "$ref" in obj and obj["$ref"].startswith(context)
IsContextRef(obj) ==
  HasKey(obj, RefKey) /\ IsStr(Get(obj, RefKey))
    /\ StartsWith(Get(obj, RefKey).s, SchemaContext)

RECURSIVE ExtractRefs(_, _)
RECURSIVE ExtractItems(_, _, _)
\* extract_refs: the references found below obj, in the order of the walk,
\* each with ref_name and the path the walk has built to the mapping holding it
ExtractRefs(obj, path) ==
  IF IsDict(obj)
  THEN (IF IsContextRef(obj)
        THEN <<[ref |-> SubSeq(Get(obj, RefKey).s, Len(SchemaContext) + 1,
                               Len(Get(obj, RefKey).s)),
                path |-> path]>>
        ELSE <<>>) \o ExtractItems(obj, path, 1)
  ELSE IF IsList(obj) THEN ExtractItems(obj, path, 1)
  ELSE <<>>

\* the two for-loops of extract_refs: over obj.items() and over enumerate(obj)
ExtractItems(obj, path, i) ==
  IF i > Len(obj.e) THEN <<>>
  ELSE ExtractRefs(obj.e[i].v,
                   JoinPath(path, IF IsDict(obj) THEN obj.e[i].key
                                  ELSE StrOfNat(i - 1)))
         \o ExtractItems(obj, path, i + 1)

RECURSIVE ExtractRaises(_)
\* obj["$ref"].startswith on a value that is no string raises AttributeError
ExtractRaises(obj) ==
  \/ IsDict(obj) /\ HasKey(obj, RefKey) /\ ~IsStr(Get(obj, RefKey))
  \/ \E i \in 1..Len(obj.e) : ExtractRaises(obj.e[i].v)

\* schemas = spec.get("components", {}).get("schemas", {})
SchemasOf(doc) == GetOr(GetOr(doc, <<"components">>), <<"schemas">>)

\* the hits of one schema; "if current_schema:" drops those of a schema named ""
SchemaHits(schemas, i) ==
  IF schemas.e[i].key # <<>> THEN ExtractRefs(schemas.e[i].v, <<>>) ELSE <<>>

RECURSIVE GraphSets(_, _)
\* graph = defaultdict(set): one key per schema holding a schema reference, in
\* the order of schemas.items(), with the set of the names it references
GraphSets(schemas, i) ==
  IF i > Len(schemas.e) THEN <<>>
  ELSE LET hits == SchemaHits(schemas, i)
       IN (IF hits = <<>> THEN <<>>
           ELSE <<[node |-> schemas.e[i].key,
                   nbrs |-> {hits[h].ref : h \in 1..Len(hits)}]>>)
          \o GraphSets(schemas, i + 1)

\* the distinct edges of one schema in the order their first reference is met
RECURSIVE EdgeOrder(_, _)
EdgeOrder(hits, seen) ==
  IF hits = <<>> THEN <<>>
  ELSE IF hits[1].ref \in seen THEN EdgeOrder(Tail(hits), seen)
  ELSE <<hits[1].ref>> \o EdgeOrder(Tail(hits), seen \cup {hits[1].ref})

RECURSIVE LocationSets(_, _)
\* locations = defaultdict(set): per location key the set of paths recorded
LocationSets(schemas, i) ==
  IF i > Len(schemas.e) THEN <<>>
  ELSE LET hits == SchemaHits(schemas, i)
           dsts == EdgeOrder(hits, {})
       IN [j \in 1..Len(dsts) |->
             [key |-> LocationKey(schemas.e[i].key, dsts[j]),
              locs |-> {hits[h].path : h \in {x \in 1..Len(hits) : hits[x].ref = dsts[j]}}]]
          \o LocationSets(schemas, i + 1)

\* the orders in which iterating a set can yield its members
Orderings(S) ==
  {f \in [1..Cardinality(S) -> S] : \A x \in S : \E i \in 1..Cardinality(S) : f[i] = x}

RECURSIVE GraphOrders(_)
\* a graph with the iteration order of each of its sets fixed
GraphOrders(gs) ==
  IF gs = <<>> THEN {<<>>}
  ELSE {<<[node |-> gs[1].node, nbrs |-> o]>> \o rest :
          o \in Orderings(gs[1].nbrs), rest \in GraphOrders(Tail(gs))}

RECURSIVE LocationOrders(_)
LocationOrders(ls) ==
  IF ls = <<>> THEN {<<>>}
  ELSE {<<[key |-> ls[1].key, locs |-> o]>> \o rest :
          o \in Orderings(ls[1].locs), rest \in LocationOrders(Tail(ls))}

\* list(graph.keys())
Keys(g) == [i \in 1..Len(g) |-> g[i].node]

\* a lookup that yields the first neighbour alone
FirstNbr(g, node) ==
  IF \E i \in 1..Len(g) : g[i].node = node /\ g[i].nbrs # <<>>
  THEN <<g[CHOOSE i \in 1..Len(g) : g[i].node = node].nbrs[1]>>
  ELSE <<>>

\* graph.get(node, [])
Nbrs(g, node) ==
  IF \E i \in 1..Len(g) : g[i].node = node
  THEN g[CHOOSE i \in 1..Len(g) : g[i].node = node].nbrs
  ELSE <<>>

\* locations.get(location_key, set())
LocsOf(ls, key) ==
  IF \E i \in 1..Len(ls) : ls[i].key = key
  THEN ls[CHOOSE i \in 1..Len(ls) : ls[i].key = key].locs
  ELSE <<>>

\* ----------------------------------------------------------------- state
VARIABLES
  pc,               \* the step the resolver is at
  input,            \* the document as loaded (never written)
  heap,             \* the document objects: "caller" (spec) and "copy"
  result,           \* the object remove_circular_references works on
  graph,            \* build_reference_graph's graph
  locations,        \* build_reference_graph's locations
  roots,            \* detect_cycles: index of the next root in nodes
  stack,            \* detect_cycles: the active calls of dfs, innermost last
  cycles,           \* detect_cycles: the raw detections
  unique_cycles,    \* detect_cycles: its return value
  expanded,         \* per root, how many times each node was expanded
  breaking_points,  \* find_breaking_points' return value
  bp_i,             \* remove_circular_references: index of the breaking point
  loc_i,            \* remove_circular_references: index of the location
  removed_refs,     \* remove_circular_references: the removed-reference log
  reapplied,        \* the call under way works on the output of an earlier one
  api_spec,         \* the pruner: the source document
  required_paths_methods, \* the pruner: the requested paths and methods
  extracted_paths,  \* extract_paths' return value
  referenced_components,  \* collect_referenced_components: the closure
  processed_refs,   \* collect_referenced_components: the processed strings
  walk,             \* the active calls of find_refs_in_object, innermost
                    \* last: the references each has still to visit
  expansions,       \* the reference strings that passed process_ref's
                    \* "already processed" test, in order
  properties_to_remove,   \* remove_component_properties: the instructions
  inst_i,           \* remove_component_properties: index of the instruction
  specs,            \* process_combined_specs: the loaded input specs
  combined_paths,   \* process_combined_specs: the paths merged so far
  combined_components,    \* process_combined_specs: the components merged
  path_i,           \* process_combined_specs: index of the required path
  warnings          \* process_combined_specs: the paths warned about

vars == <<pc, input, heap, result, graph, locations, roots, stack, cycles,
          unique_cycles, expanded, breaking_points, bp_i, loc_i, removed_refs,
          reapplied, api_spec, required_paths_methods, extracted_paths,
          referenced_components, processed_refs, walk, expansions,
          properties_to_remove, inst_i, specs, combined_paths,
          combined_components, path_i, warnings>>

dfsVars == <<roots, stack, cycles, unique_cycles, expanded>>

docVars == <<input, heap, result>>

breakVars == <<breaking_points, bp_i, loc_i, removed_refs, reapplied>>

batchVars == <<properties_to_remove, inst_i, specs, combined_paths,
               combined_components, path_i, warnings>>

closureVars == <<api_spec, required_paths_methods, extracted_paths,
                 referenced_components, processed_refs, walk, expansions,
                 properties_to_remove, inst_i, specs, combined_paths,
                 combined_components, path_i, warnings>>

EmptyDoc == DictNode(<<>>)

\* the pruner's variables while the resolver runs on its own
BatchIdle ==
  /\ properties_to_remove = <<>> /\ inst_i = 1
  /\ specs = <<>> /\ combined_paths = EmptyDoc /\ combined_components = EmptyDoc
  /\ path_i = 1 /\ warnings = <<>>

ClosureIdle ==
  /\ api_spec = EmptyDoc /\ required_paths_methods = <<>>
  /\ extracted_paths = EmptyDoc /\ referenced_components = EmptyDoc
  /\ processed_refs = {} /\ walk = <<>> /\ expansions = <<>>
  /\ BatchIdle

\* --------------------------------------------------------- detect_cycles
\* a cycle cut from the start of the path
WholePath(path, node) == path \o <<node>>

\* cycle_start = path.index(node); current_cycle = path[cycle_start:] + [node]
CurrentCycle(path, node) ==
  LET cycle_start == CHOOSE i \in 1..Len(path) :
                       path[i] = node /\ \A h \in 1..(i - 1) : path[h] # node
  IN SubSeq(path, cycle_start, Len(path)) \o <<node>>

\* a callee that is handed neither visited nor path
FreshFrame(frame, neighbor) ==
  [node |-> neighbor, visited |-> {}, path |-> <<>>,
   nbrs |-> <<>>, entered |-> FALSE]

\* dfs(neighbor, visited.copy(), new_path): the callee's visited and path
CalleeFrame(frame, neighbor) ==
  [node |-> neighbor, visited |-> frame.visited, path |-> frame.path,
   nbrs |-> <<>>, entered |-> FALSE]

\* dfs(node): visited = set(), path = []
RootFrame(node) ==
  [node |-> node, visited |-> {}, path |-> <<>>, nbrs |-> <<>>, entered |-> FALSE]

RECURSIVE UniqueCycles(_, _)
\* the deduplication loop: a cycle is kept unless tuple(cycle) was seen
UniqueCycles(cs, seen_cycles) ==
  IF cs = <<>> THEN <<>>
  ELSE IF cs[1] \in seen_cycles THEN UniqueCycles(Tail(cs), seen_cycles)
  ELSE <<cs[1]>> \o UniqueCycles(Tail(cs), seen_cycles \cup {cs[1]})

RECURSIVE Dfs(_, _, _, _)
RECURSIVE DfsNeighbors(_, _, _, _)
\* the cycles one call dfs(node, visited, path) appends, in order
Dfs(g, node, visited, path) ==
  IF node \in SeqRange(path) THEN <<CurrentCycle(path, node)>>
  ELSE IF node \in visited THEN <<>>
  ELSE DfsNeighbors(g, Nbrs(g, node), visited \cup {node}, Append(path, node))

\* for neighbor in neighbors: dfs(neighbor, visited.copy(), path.copy())
DfsNeighbors(g, neighbors, visited, path) ==
  IF neighbors = <<>> THEN <<>>
  ELSE Dfs(g, Head(neighbors), visited, path)
         \o DfsNeighbors(g, Tail(neighbors), visited, path)

RECURSIVE DfsRoots(_, _)
\* for node in nodes: dfs(node)
DfsRoots(g, i) ==
  IF i > Len(g) THEN <<>>
  ELSE Dfs(g, Keys(g)[i], {}, <<>>) \o DfsRoots(g, i + 1)

\* detect_cycles(graph)
DetectCyclesOf(g) == UniqueCycles(DfsRoots(g, 1), {})

Top == stack[Len(stack)]

Pop == SubSeq(stack, 1, Len(stack) - 1)

\* for node in nodes: dfs(node)
DfsRoot ==
  /\ pc = "dfs" /\ stack = <<>> /\ roots <= Len(graph)
  /\ stack' = <<RootFrame(Keys(graph)[roots])>>
  /\ roots' = roots + 1
  /\ expanded' = [n \in {} |-> 0]
  /\ UNCHANGED <<pc, graph, locations, cycles, unique_cycles>>
  /\ UNCHANGED docVars /\ UNCHANGED breakVars
  /\ UNCHANGED closureVars

\* a call of dfs up to its loop over the neighbors
DfsEnter ==
  /\ pc = "dfs" /\ stack # <<>> /\ ~Top.entered
  /\ IF Top.node \in SeqRange(Top.path)
     THEN /\ cycles' = Append(cycles, CurrentCycle(Top.path, Top.node))
          /\ stack' = Pop
          /\ UNCHANGED expanded
     ELSE IF Top.node \in Top.visited
     THEN /\ stack' = Pop
          /\ UNCHANGED <<cycles, expanded>>
     ELSE /\ stack' = [stack EXCEPT ![Len(stack)] =
                         [node |-> Top.node,
                          visited |-> Top.visited \cup {Top.node},
                          path |-> Append(Top.path, Top.node),
                          nbrs |-> Nbrs(graph, Top.node),
                          entered |-> TRUE]]
          /\ expanded' = [n \in DOMAIN expanded \cup {Top.node} |->
                            IF n \in DOMAIN expanded
                            THEN expanded[n] + (IF n = Top.node THEN 1 ELSE 0)
                            ELSE 1]
          /\ UNCHANGED cycles
  /\ UNCHANGED <<pc, graph, locations, roots, unique_cycles>>
  /\ UNCHANGED docVars /\ UNCHANGED breakVars
  /\ UNCHANGED closureVars

\* one turn of "for neighbor in neighbors", or the return at its end
DfsNext ==
  /\ pc = "dfs" /\ stack # <<>> /\ Top.entered
  /\ IF Top.nbrs = <<>>
     THEN stack' = Pop
     ELSE stack' = Append([stack EXCEPT ![Len(stack)].nbrs = Tail(Top.nbrs)],
                          CalleeFrame(Top, Head(Top.nbrs)))
  /\ UNCHANGED <<pc, graph, locations, roots, cycles, unique_cycles, expanded>>
  /\ UNCHANGED docVars /\ UNCHANGED breakVars
  /\ UNCHANGED closureVars

\* the end of detect_cycles; resolve_openapi_circular_refs goes on to
\* find_breaking_points only "if cycles"
DfsReturn ==
  /\ pc = "dfs" /\ stack = <<>> /\ roots > Len(graph)
  /\ unique_cycles' = UniqueCycles(cycles, {})
  /\ pc' = IF unique_cycles' # <<>> THEN "find" ELSE "done"
  /\ UNCHANGED <<graph, locations, roots, stack, cycles, expanded>>
  /\ UNCHANGED docVars /\ UNCHANGED breakVars
  /\ UNCHANGED closureVars

\* -------------------------------------------------- find_breaking_points
\* cycle_edges: (cycle[i], cycle[i+1]) for i in range(len(cycle) - 1)
CycleEdges(cycle) == [i \in 1..(Len(cycle) - 1) |-> <<cycle[i], cycle[i + 1]>>]

\* edge_counts[edge] = len(locations.get(location_key, set()))
EdgeCount(ls, edge) == Len(LocsOf(ls, LocationKey(edge[1], edge[2])))

RECURSIVE MinFromLast(_, _, _, _)
\* a scan that keeps the last of the smallest items
MinFromLast(edges, ls, i, best) ==
  IF i > Len(edges) THEN best
  ELSE MinFromLast(edges, ls, i + 1,
                   IF EdgeCount(ls, edges[i]) <= EdgeCount(ls, edges[best])
                   THEN i ELSE best)

RECURSIVE MinFrom(_, _, _, _)
\* min() over the items from the i-th on: best is replaced only by an item
\* whose count is strictly smaller
MinFrom(edges, ls, i, best) ==
  IF i > Len(edges) THEN best
  ELSE MinFrom(edges, ls, i + 1,
               IF EdgeCount(ls, edges[i]) < EdgeCount(ls, edges[best]) THEN i ELSE best)

\* min(edge_counts.items(), key=lambda x: x[1])[0]
MinEdge(edges, ls) == edges[MinFrom(edges, ls, 2, 1)]

\* the record appended for one cycle
BreakingPoint(cycle, ls) ==
  LET min_edge == MinEdge(CycleEdges(cycle), ls)
  IN [cycle |-> cycle,
      break_edge |-> min_edge,
      reference_count |-> EdgeCount(ls, min_edge),
      locations |-> LocsOf(ls, LocationKey(min_edge[1], min_edge[2]))]

RECURSIVE PointsBackward(_, _)
\* the breaking points prepended instead of appended
PointsBackward(cs, ls) ==
  IF cs = <<>> THEN <<>>
  ELSE PointsBackward(Tail(cs), ls)
         \o (IF Len(cs[1]) >= 2 THEN <<BreakingPoint(cs[1], ls)>> ELSE <<>>)

RECURSIVE FindBreakingPoints(_, _)
\* one breaking point per cycle whose edge_counts is not empty
FindBreakingPoints(cs, ls) ==
  IF cs = <<>> THEN <<>>
  ELSE (IF Len(cs[1]) >= 2 THEN <<BreakingPoint(cs[1], ls)>> ELSE <<>>)
         \o FindBreakingPoints(Tail(cs), ls)

\* -------------------------------------------- remove_circular_references
\* result = spec: the same object
Alias(h, obj) == [heap |-> h, ref |-> obj]

\* result = copy.deepcopy(spec): a new object holding an equal document
DeepCopy(h, obj) == [heap |-> [h EXCEPT !["copy"] = h[obj]], ref |-> "copy"]

\* a placeholder that keeps the reference beside the marker
KeepsRef(dst) ==
  DictNode(<<Entry(RefKey, StrNode(SchemaRef(dst))),
             Entry(<<"x-removed-circular-ref">>, StrNode(SchemaRef(dst))),
             Entry(<<"type">>, StrNode(<<"object">>)),
             Entry(<<"description">>,
                   StrNode(<<"Circular reference to ">> \o dst \o <<" was removed">>))>>)

\* a placeholder that refers on, to a schema named Z
RefersOn(dst) ==
  DictNode(<<Entry(<<"x-removed-circular-ref">>, StrNode(SchemaRef(dst))),
             Entry(RefKey, StrNode(SchemaRef(<<"Z">>)))>>)

\* the placeholder written over a removed reference
Placeholder(dst) ==
  DictNode(<<Entry(<<"x-removed-circular-ref">>, StrNode(SchemaRef(dst))),
             Entry(<<"type">>, StrNode(<<"object">>)),
             Entry(<<"description">>,
                   StrNode(<<"Circular reference to ">> \o dst \o <<" was removed">>))>>)

\* the entry of current a path segment selects, 0 when it selects none: a
\* segment of digits is turned into an int, which is the key of no mapping
ChildIndex(current, part) ==
  IF IsDict(current) /\ ~IsDigit(part) /\ HasKey(current, part)
  THEN KeyIndex(current, part)
  ELSE IF IsList(current) /\ IsDigit(part) /\ ToInt(part) < Len(current.e)
  THEN ToInt(part) + 1
  ELSE 0

\* a walk that reports a rewrite wherever it ends
ReportsAlways(current, parts, dst) == [ok |-> TRUE, obj |-> current]

\* a test that takes any reference for the expected one
IsAnyRef(leaf, dst) == IsDict(leaf) /\ HasKey(leaf, RefKey)

\* isinstance(leaf, dict) and "$ref" in leaf and leaf["$ref"] == f"#/components/schemas/{dst}"
IsRefTo(leaf, dst) ==
  /\ IsDict(leaf) /\ HasKey(leaf, RefKey)
  /\ Get(leaf, RefKey) = StrNode(SchemaRef(dst))

RECURSIVE RewriteAt(_, _, _)
\* the walk of remove_ref along path_parts and the rewrite at its end
RewriteAt(current, parts, dst) ==
  LET i == ChildIndex(current, parts[1])
  IN IF i = 0 THEN [ok |-> FALSE, obj |-> current]
     ELSE IF Len(parts) = 1
     THEN (IF IsRefTo(current.e[i].v, dst)
           THEN [ok |-> TRUE, obj |-> [current EXCEPT !.e[i].v = Placeholder(dst)]]
           ELSE [ok |-> FALSE, obj |-> current])
     ELSE LET below == RewriteAt(current.e[i].v, Tail(parts), dst)
          IN [ok |-> below.ok, obj |-> [current EXCEPT !.e[i].v = below.obj]]

\* a remove_ref that rewrites and returns False
Unreported(obj, dst, ref_path) ==
  IF ref_path = <<>> THEN [ok |-> FALSE, obj |-> obj]
  ELSE [ok |-> FALSE, obj |-> RewriteAt(obj, Split(Strip(ref_path)), dst).obj]

\* a remove_ref that gives up on every location
NoRemoval(obj, dst, ref_path) == [ok |-> FALSE, obj |-> obj]

\* remove_ref(obj, src_schema, dst_schema, ref_path): whether it rewrote, and
\* obj after the call
RemoveRef(obj, dst, ref_path) ==
  IF ref_path = <<>> THEN [ok |-> FALSE, obj |-> obj]
  ELSE RewriteAt(obj, Split(Strip(ref_path)), dst)

\* obj with obj[key] = v
SetKey(obj, key, v) == [obj EXCEPT !.e[KeyIndex(obj, key)].v = v]

\* doc with the body of schema name replaced
SetSchema(doc, name, body) ==
  SetKey(doc, <<"components">>,
         SetKey(Get(doc, <<"components">>), <<"schemas">>,
                SetKey(SchemasOf(doc), name, body)))

\* graph, locations = build_reference_graph(spec)
BuildReferenceGraph ==
  /\ pc = "build"
  /\ IF ExtractRaises(SchemasOf(heap["caller"]))
     THEN pc' = "raised" /\ UNCHANGED <<graph, locations>>
     ELSE /\ pc' = "detect"
          /\ graph' \in GraphOrders(GraphSets(SchemasOf(heap["caller"]), 1))
          /\ locations' \in LocationOrders(LocationSets(SchemasOf(heap["caller"]), 1))
  /\ UNCHANGED docVars /\ UNCHANGED dfsVars /\ UNCHANGED breakVars
  /\ UNCHANGED closureVars

\* cycles = detect_cycles(graph), and the "if cycles" that follows it
DetectCycles ==
  /\ pc = "detect"
  /\ cycles' = DfsRoots(graph, 1)
  /\ unique_cycles' = DetectCyclesOf(graph)
  /\ pc' = IF unique_cycles' # <<>> THEN "find" ELSE "done"
  /\ UNCHANGED <<graph, locations, roots, stack, expanded>>
  /\ UNCHANGED docVars /\ UNCHANGED breakVars
  /\ UNCHANGED closureVars

\* breaking_points = find_breaking_points(cycles, locations)
FindPoints ==
  /\ pc = "find"
  /\ breaking_points' = FindBreakingPoints(unique_cycles, locations)
  /\ pc' = "copy"
  /\ UNCHANGED <<bp_i, loc_i, removed_refs, reapplied, graph, locations>>
  /\ UNCHANGED docVars /\ UNCHANGED dfsVars
  /\ UNCHANGED closureVars

\* the head of remove_circular_references
CopySpec ==
  /\ pc = "copy"
  /\ heap' = DeepCopy(heap, "caller").heap
  /\ result' = DeepCopy(heap, "caller").ref
  /\ pc' = "remove"
  /\ UNCHANGED <<input, graph, locations>>
  /\ UNCHANGED dfsVars /\ UNCHANGED breakVars
  /\ UNCHANGED closureVars

\* one turn of "for location in locations"
RemoveLocation ==
  /\ pc = "remove" /\ bp_i <= Len(breaking_points)
  /\ loc_i <= Len(breaking_points[bp_i].locations)
  /\ LET point == breaking_points[bp_i]
         src == point.break_edge[1]
         dst == point.break_edge[2]
         location == point.locations[loc_i]
         schemas == SchemasOf(heap[result])
     IN IF ~HasKey(schemas, src)
        THEN pc' = "raised" /\ UNCHANGED <<heap, removed_refs, loc_i>>
        ELSE LET r == RemoveRef(Get(schemas, src), dst, location)
             IN /\ heap' = [heap EXCEPT ![result] = SetSchema(heap[result], src, r.obj)]
                /\ removed_refs' =
                     IF r.ok
                     THEN Append(removed_refs,
                                 [source_schema |-> src, target_schema |-> dst,
                                  path |-> location])
                     ELSE removed_refs
                /\ loc_i' = loc_i + 1
                /\ UNCHANGED pc
  /\ UNCHANGED <<input, result, graph, locations, breaking_points, bp_i, reapplied>>
  /\ UNCHANGED dfsVars
  /\ UNCHANGED closureVars

\* one turn of "for point in breaking_points"
NextPoint ==
  /\ pc = "remove" /\ bp_i <= Len(breaking_points)
  /\ loc_i > Len(breaking_points[bp_i].locations)
  /\ bp_i' = bp_i + 1 /\ loc_i' = 1
  /\ UNCHANGED <<pc, graph, locations, breaking_points, removed_refs, reapplied>>
  /\ UNCHANGED docVars /\ UNCHANGED dfsVars
  /\ UNCHANGED closureVars

\* return result, removed_refs
RemoveReturn ==
  /\ pc = "remove" /\ bp_i > Len(breaking_points)
  /\ pc' = "done"
  /\ UNCHANGED <<graph, locations>>
  /\ UNCHANGED docVars /\ UNCHANGED dfsVars /\ UNCHANGED breakVars
  /\ UNCHANGED closureVars

\* ----------------------------------------------------------- extract_paths
\* obj[key] = v: an existing key keeps its place, a new one goes last
PutKey(obj, key, v) ==
  IF HasKey(obj, key) THEN SetKey(obj, key, v)
  ELSE DictNode(Append(obj.e, Entry(key, v)))

\* str.lower() on the method names the requests are written with
LowerAtom(a) ==
  CASE a = "GET" -> "get"
    [] a = "POST" -> "post"
    [] a = "Put" -> "put"
    [] OTHER -> a

\* a method name left as it is written
SameCase(s) == s

\* method.lower()
Lower(s) == [i \in 1..Len(s) |-> LowerAtom(s[i])]

RECURSIVE PathData(_, _, _, _)
\* the loop over the methods requested for one path
PathData(item, methods, i, path_data) ==
  IF i > Len(methods) THEN path_data
  ELSE LET method == Lower(methods[i])
       IN PathData(item, methods, i + 1,
                   IF HasKey(item, method)
                   THEN PutKey(path_data, method, Get(item, method))
                   ELSE path_data)

RECURSIVE ExtractFrom(_, _, _, _)
\* the loop over required_paths_methods.items()
ExtractFrom(spec, required, i, extracted) ==
  IF i > Len(required) THEN extracted
  ELSE LET path == required[i].path
           paths == Get(spec, <<"paths">>)
           path_data == IF HasKey(paths, path)
                        THEN PathData(Get(paths, path), required[i].methods,
                                      1, EmptyDoc)
                        ELSE EmptyDoc
       IN ExtractFrom(spec, required, i + 1,
                      IF path_data.e # <<>>
                      THEN PutKey(extracted, path, path_data)
                      ELSE extracted)

\* extract_paths(api_spec, required_paths_methods)
ExtractPathsOf(spec, required) == ExtractFrom(spec, required, 1, EmptyDoc)

\* ------------------------------------------- collect_referenced_components
\* components = api_spec.get('components', {})
Components(spec) == GetOr(spec, <<"components">>)

\* referenced_components as first assigned
InitialComponents ==
  DictNode(<<Entry(<<"schemas">>, EmptyDoc), Entry(<<"parameters">>, EmptyDoc),
             Entry(<<"responses">>, EmptyDoc),
             Entry(<<"requestBodies">>, EmptyDoc)>>)

\* a test that never finds the reference
NeverProcessed(ref, processed) == FALSE

\* if ref in processed_refs: return
AlreadyProcessed(ref, processed) == ref \in processed

\* len(parts) >= 4 and parts[1] == 'components', and the component exists
Resolves(components, parts) ==
  /\ Len(parts) >= 4
  /\ parts[2] = <<"components">>
  /\ HasKey(components, parts[3])
  /\ HasKey(Get(components, parts[3]), parts[4])

\* referenced_components[component_type][component_name] = the component
AddComponent(referenced, type, name, body) ==
  LET typed == IF HasKey(referenced, type) THEN referenced
               ELSE PutKey(referenced, type, EmptyDoc)
  IN PutKey(typed, type, PutKey(Get(typed, type), name, body))

RECURSIVE FindRefs(_), FindRefsFrom(_, _)
\* a loop that leaves after the first item
FindRefsFirst(obj, i) ==
  IF i > Len(obj.e) THEN <<>>
  ELSE IF IsDict(obj) /\ obj.e[i].key = RefKey /\ IsStr(obj.e[i].v)
  THEN <<obj.e[i].v.s>>
  ELSE FindRefs(obj.e[i].v)

\* find_refs_in_object(obj): the strings it hands to process_ref, in order
FindRefs(obj) == IF IsStr(obj) THEN <<>> ELSE FindRefsFrom(obj, 1)

\* its loop over obj.items(), or over the items of a list
FindRefsFrom(obj, i) ==
  IF i > Len(obj.e) THEN <<>>
  ELSE (IF IsDict(obj) /\ obj.e[i].key = RefKey /\ IsStr(obj.e[i].v)
        THEN <<obj.e[i].v.s>>
        ELSE FindRefs(obj.e[i].v)) \o FindRefsFrom(obj, i + 1)

RECURSIVE EntryRefs(_, _)
\* for path, methods in extracted_paths.items(): find_refs_in_object(methods)
EntryRefs(extracted, i) ==
  IF i > Len(extracted.e) THEN <<>>
  ELSE FindRefs(extracted.e[i].v) \o EntryRefs(extracted, i + 1)

\* the order of single characters: the names are written over Letters, which
\* lists its characters in code point order
Ord(a) == CHOOSE i \in 1..Len(Letters) : Letters[i] = a

RECURSIVE StrLess(_, _)
\* a < b on strings
StrLess(a, b) ==
  IF b = <<>> THEN FALSE
  ELSE IF a = <<>> THEN TRUE
  ELSE IF a[1] = b[1] THEN StrLess(Tail(a), Tail(b))
  ELSE Ord(a[1]) < Ord(b[1])

\* the items in the order they were inserted
Unsorted(entries) == entries

RECURSIVE SortedItems(_)
\* sorted(d.items()): the keys of a dict differ, so they decide the order
SortedItems(entries) ==
  IF entries = <<>> THEN <<>>
  ELSE LET least == CHOOSE i \in 1..Len(entries) :
                      \A j \in 1..Len(entries) :
                        j # i => StrLess(entries[i].key, entries[j].key)
       IN <<entries[least]>> \o
          SortedItems([j \in 1..(Len(entries) - 1) |->
                        IF j < least THEN entries[j] ELSE entries[j + 1]])

RECURSIVE CleanUp(_, _)
\* the closing loop: an empty type is popped, any other is rebuilt sorted
CleanUp(referenced, i) ==
  IF i > Len(referenced.e) THEN <<>>
  ELSE (IF referenced.e[i].v.e = <<>> THEN <<>>
        ELSE <<Entry(referenced.e[i].key,
                     DictNode(SortedItems(referenced.e[i].v.e)))>>)
       \o CleanUp(referenced, i + 1)

\* a walk that leaves the body it is in
SkipRest(w) == [w EXCEPT ![Len(w)] = <<>>]

\* process_ref returns and the loop of find_refs_in_object goes on
AfterRef(w) == [w EXCEPT ![Len(w)] = Tail(@)]

WalkTop == walk[Len(walk)]

\* extracted_paths = extract_paths(api_spec, required_paths_methods)
ExtractPaths ==
  /\ pc = "extract"
  /\ extracted_paths' = ExtractPathsOf(api_spec, required_paths_methods)
  /\ pc' = "collect"
  /\ UNCHANGED <<api_spec, required_paths_methods, referenced_components,
                 processed_refs, walk, expansions>>
  /\ UNCHANGED <<graph, locations>>
  /\ UNCHANGED docVars /\ UNCHANGED dfsVars /\ UNCHANGED breakVars
  /\ UNCHANGED batchVars

\* the head of collect_referenced_components, up to its loop over the paths
CollectBegin ==
  /\ pc = "collect"
  /\ referenced_components' = InitialComponents
  /\ processed_refs' = {}
  /\ walk' = <<EntryRefs(extracted_paths, 1)>>
  /\ pc' = "walk"
  /\ UNCHANGED <<api_spec, required_paths_methods, extracted_paths, expansions>>
  /\ UNCHANGED <<graph, locations>>
  /\ UNCHANGED docVars /\ UNCHANGED dfsVars /\ UNCHANGED breakVars
  /\ UNCHANGED batchVars

\* process_ref(ref) on the next reference of the innermost walk
ProcessRef ==
  /\ pc = "walk" /\ WalkTop # <<>>
  /\ \E ref \in {Head(WalkTop)} :
       \E fresh \in {~AlreadyProcessed(ref, processed_refs)} :
         \E parts \in {Split(ref)} :
           \E found \in {fresh /\ Resolves(Components(api_spec), parts)} :
             /\ processed_refs' = processed_refs \cup {ref}
             /\ expansions' = IF fresh THEN Append(expansions, ref)
                              ELSE expansions
             /\ referenced_components' =
                  IF found
                  THEN AddComponent(referenced_components, parts[3], parts[4],
                                    Get(Get(Components(api_spec), parts[3]),
                                        parts[4]))
                  ELSE referenced_components
             /\ walk' =
                  IF found
                  THEN Append(AfterRef(walk),
                              FindRefs(Get(Get(Components(api_spec), parts[3]),
                                           parts[4])))
                  ELSE AfterRef(walk)
  /\ UNCHANGED <<pc, api_spec, required_paths_methods, extracted_paths>>
  /\ UNCHANGED <<graph, locations>>
  /\ UNCHANGED docVars /\ UNCHANGED dfsVars /\ UNCHANGED breakVars
  /\ UNCHANGED batchVars

\* find_refs_in_object returns to the process_ref that called it
WalkReturn ==
  /\ pc = "walk" /\ Len(walk) > 1 /\ WalkTop = <<>>
  /\ walk' = SubSeq(walk, 1, Len(walk) - 1)
  /\ UNCHANGED <<pc, api_spec, required_paths_methods, extracted_paths,
                 referenced_components, processed_refs, expansions>>
  /\ UNCHANGED <<graph, locations>>
  /\ UNCHANGED docVars /\ UNCHANGED dfsVars /\ UNCHANGED breakVars
  /\ UNCHANGED batchVars

\* the clean up and the return of collect_referenced_components
CollectReturn ==
  /\ pc = "walk" /\ walk = << <<>> >>
  /\ referenced_components' = DictNode(CleanUp(referenced_components, 1))
  /\ walk' = <<>>
  /\ pc' = "collected"
  /\ UNCHANGED <<api_spec, required_paths_methods, extracted_paths,
                 processed_refs, expansions>>
  /\ UNCHANGED <<graph, locations>>
  /\ UNCHANGED docVars /\ UNCHANGED dfsVars /\ UNCHANGED breakVars
  /\ UNCHANGED batchVars

RECURSIVE CollectWalk(_, _, _, _)
\* the loop over the paths run to its end: referenced_components before the
\* closing loop
CollectWalk(spec, w, referenced, processed) ==
  IF w = << <<>> >> THEN referenced
  ELSE IF w[Len(w)] = <<>>
  THEN CollectWalk(spec, SubSeq(w, 1, Len(w) - 1), referenced, processed)
  ELSE LET ref == Head(w[Len(w)])
           parts == Split(ref)
           found == ~AlreadyProcessed(ref, processed)
                      /\ Resolves(Components(spec), parts)
       IN IF found
          THEN LET body == Get(Get(Components(spec), parts[3]), parts[4])
               IN CollectWalk(spec, Append(AfterRef(w), FindRefs(body)),
                              AddComponent(referenced, parts[3], parts[4], body),
                              processed \cup {ref})
          ELSE CollectWalk(spec, AfterRef(w), referenced, processed \cup {ref})

\* collect_referenced_components(api_spec, extracted_paths)
CollectReferencedComponents(spec, extracted) ==
  DictNode(CleanUp(CollectWalk(spec, <<EntryRefs(extracted, 1)>>,
                               InitialComponents, {}), 1))

\* --------------------------------------------- remove_component_properties
\* prop in x: a key of a mapping, an item of a list, a part of a string
In(x, prop) ==
  IF IsDict(x) THEN HasKey(x, prop)
  ELSE IF IsList(x) THEN \E i \in 1..Len(x.e) : x.e[i].v = StrNode(prop)
  ELSE \E i \in 0..(Len(x.s) - Len(prop)) : SubSeq(x.s, i + 1, i + Len(prop)) = prop

\* obj after del obj[key]
DelKey(obj, key) ==
  LET k == KeyIndex(obj, key)
  IN DictNode([i \in 1..(Len(obj.e) - 1) |->
                IF i < k THEN obj.e[i] ELSE obj.e[i + 1]])

RECURSIVE DelEach(_, _)
\* the loop without its test: del raises on the first property x lacks
DelEach(x, properties) ==
  IF properties = <<>> THEN [raised |-> FALSE, obj |-> x]
  ELSE IF ~IsDict(x) \/ ~HasKey(x, properties[1]) THEN [raised |-> TRUE, obj |-> x]
  ELSE DelEach(DelKey(x, properties[1]), Tail(properties))

RECURSIVE Discard(_, _)
\* for prop in properties: if prop in x: del x[prop].  del raises on what is
\* no mapping; x is left as it was by then
Discard(x, properties) ==
  IF properties = <<>> THEN [raised |-> FALSE, obj |-> x]
  ELSE IF ~In(x, properties[1]) THEN Discard(x, Tail(properties))
  ELSE IF ~IsDict(x) THEN [raised |-> TRUE, obj |-> x]
  ELSE Discard(DelKey(x, properties[1]), Tail(properties))

RECURSIVE DiscardInItems(_, _, _)
\* for item in component['allOf']: the items from the i-th on
DiscardInItems(items, properties, i) ==
  IF ~IsList(items) \/ i > Len(items.e) THEN [raised |-> FALSE, obj |-> items]
  ELSE LET item == items.e[i].v
       IN IF IsDict(item) /\ HasKey(item, <<"properties">>)
          THEN LET r == Discard(Get(item, <<"properties">>), properties)
                   now == [items EXCEPT !.e[i].v = SetKey(item, <<"properties">>, r.obj)]
               IN IF r.raised THEN [raised |-> TRUE, obj |-> now]
                  ELSE DiscardInItems(now, properties, i + 1)
          ELSE DiscardInItems(items, properties, i + 1)

\* the body of "if component_name in components": the component itself, then
\* its properties, or else the items of its allOf
PruneComponent(component, properties) ==
  LET own == Discard(component, properties)
      c == own.obj
  IN IF own.raised THEN own
     ELSE IF In(c, <<"properties">>)
     THEN (IF ~IsDict(c) THEN [raised |-> TRUE, obj |-> c]
           ELSE LET r == Discard(Get(c, <<"properties">>), properties)
                IN [raised |-> r.raised, obj |-> SetKey(c, <<"properties">>, r.obj)])
     ELSE IF In(c, <<"allOf">>)
     THEN (IF ~IsDict(c) THEN [raised |-> TRUE, obj |-> c]
           ELSE LET r == DiscardInItems(Get(c, <<"allOf">>), properties, 1)
                IN [raised |-> r.raised, obj |-> SetKey(c, <<"allOf">>, r.obj)])
     ELSE [raised |-> FALSE, obj |-> c]

RECURSIVE PruneTypes(_, _, _, _)
\* for component_type, components in referenced_components.items(): the
\* types from the t-th on
PruneTypes(referenced, name, properties, t) ==
  IF t > Len(referenced.e) THEN [raised |-> FALSE, obj |-> referenced]
  ELSE IF HasKey(referenced.e[t].v, name)
  THEN LET r == PruneComponent(Get(referenced.e[t].v, name), properties)
           now == [referenced EXCEPT !.e[t].v = SetKey(@, name, r.obj)]
       IN IF r.raised THEN [raised |-> TRUE, obj |-> now]
          ELSE PruneTypes(now, name, properties, t + 1)
  ELSE PruneTypes(referenced, name, properties, t + 1)

RECURSIVE Shared(_, _, _, _)
\* the components of referenced_components are the objects api_spec holds:
\* spec as it reads once the components called name have become what
\* referenced holds
Shared(spec, referenced, name, t) ==
  IF t > Len(referenced.e) THEN spec
  ELSE LET type == referenced.e[t].key
       IN IF HasKey(referenced.e[t].v, name)
          THEN Shared(SetKey(spec, <<"components">>,
                             SetKey(Components(spec), type,
                                    SetKey(Get(Components(spec), type), name,
                                           Get(referenced.e[t].v, name)))),
                      referenced, name, t + 1)
          ELSE Shared(spec, referenced, name, t + 1)

\* one turn of "for component_name, properties in properties_to_remove.items()"
RemoveProperties ==
  /\ pc = "prune" /\ inst_i <= Len(properties_to_remove)
  /\ \E r \in {PruneTypes(referenced_components,
                          properties_to_remove[inst_i].name,
                          properties_to_remove[inst_i].properties, 1)} :
       /\ referenced_components' = r.obj
       /\ api_spec' = Shared(api_spec, r.obj, properties_to_remove[inst_i].name, 1)
       /\ pc' = IF r.raised THEN "raised" ELSE "prune"
       /\ inst_i' = IF r.raised THEN inst_i ELSE inst_i + 1
  /\ UNCHANGED <<required_paths_methods, extracted_paths, processed_refs, walk,
                 expansions, properties_to_remove, specs, combined_paths,
                 combined_components, path_i, warnings>>
  /\ UNCHANGED <<graph, locations>>
  /\ UNCHANGED docVars /\ UNCHANGED dfsVars /\ UNCHANGED breakVars

\* remove_component_properties returns
PruneReturn ==
  /\ pc = "prune" /\ inst_i > Len(properties_to_remove)
  /\ pc' = "pruned"
  /\ UNCHANGED <<graph, locations>>
  /\ UNCHANGED docVars /\ UNCHANGED dfsVars /\ UNCHANGED breakVars
  /\ UNCHANGED closureVars

\* --------------------------------------------------------- shorten_api_spec
RECURSIVE RemoveComponentProperties(_, _, _, _)
\* remove_component_properties from the i-th instruction on: what the closure
\* and the source document, which holds the same component objects, become
RemoveComponentProperties(spec, referenced, instructions, i) ==
  IF i > Len(instructions)
  THEN [raised |-> FALSE, referenced |-> referenced, spec |-> spec]
  ELSE LET r == PruneTypes(referenced, instructions[i].name,
                           instructions[i].properties, 1)
           now == Shared(spec, r.obj, instructions[i].name, 1)
       IN IF r.raised THEN [raised |-> TRUE, referenced |-> r.obj, spec |-> now]
          ELSE RemoveComponentProperties(now, r.obj, instructions, i + 1)

\* extract_paths, collect_referenced_components and, if properties_to_remove is
\* not empty, remove_component_properties
ShortenApiSpec(spec, required, instructions) ==
  LET extracted == ExtractPathsOf(spec, required)
      referenced == CollectReferencedComponents(spec, extracted)
      r == IF instructions # <<>>
           THEN RemoveComponentProperties(spec, referenced, instructions, 1)
           ELSE [raised |-> FALSE, referenced |-> referenced, spec |-> spec]
  IN [raised |-> r.raised, paths |-> extracted,
      components |-> r.referenced, spec |-> r.spec]

\* the same steps once more on the document as it is in memory by now
Rerun ==
  /\ pc = "pruned"
  /\ \E r \in {ShortenApiSpec(api_spec, required_paths_methods,
                              properties_to_remove)} :
       /\ extracted_paths' = r.paths
       /\ referenced_components' = r.components
       /\ api_spec' = r.spec
       /\ pc' = IF r.raised THEN "raised" ELSE "rerun"
  /\ UNCHANGED <<required_paths_methods, processed_refs, walk, expansions>>
  /\ UNCHANGED batchVars
  /\ UNCHANGED <<graph, locations>>
  /\ UNCHANGED docVars /\ UNCHANGED dfsVars /\ UNCHANGED breakVars

\* -------------------------------------------------- process_combined_specs
RECURSIVE AvailableMethods(_, _)
\* [m for m in methods if m.lower() in spec_paths[path]]
AvailableMethods(item, methods) ==
  IF methods = <<>> THEN <<>>
  ELSE (IF HasKey(item, Lower(methods[1])) THEN <<methods[1]>> ELSE <<>>)
         \o AvailableMethods(item, Tail(methods))

RECURSIVE FirstSpec(_, _, _, _)
\* "for s in specs", from the i-th spec on: the spec the loop breaks at, the
\* first that has the path with one of the methods; 0 when it runs to its end
FirstSpec(ss, path, methods, i) ==
  IF i > Len(ss) THEN 0
  ELSE LET spec_paths == GetOr(ss[i], <<"paths">>)
       IN IF /\ HasKey(spec_paths, path)
             /\ AvailableMethods(Get(spec_paths, path), methods) # <<>>
          THEN i
          ELSE FirstSpec(ss, path, methods, i + 1)

RECURSIVE Update(_, _, _)
\* d.update(other): the items of other from the i-th on
Update(d, other, i) ==
  IF i > Len(other.e) THEN d
  ELSE Update(PutKey(d, other.e[i].key, other.e[i].v), other, i + 1)

RECURSIVE MergeComponents(_, _, _)
\* for ctype, cdict in referenced.items(): combined_components[ctype].update(cdict)
MergeComponents(combined, referenced, i) ==
  IF i > Len(referenced.e) THEN combined
  ELSE LET ctype == referenced.e[i].key
           typed == IF HasKey(combined, ctype) THEN combined
                    ELSE PutKey(combined, ctype, EmptyDoc)
       IN MergeComponents(
            PutKey(typed, ctype, Update(Get(typed, ctype), referenced.e[i].v, 1)),
            referenced, i + 1)

\* one turn of "for path, methods in required_paths.items()"
CombinePath ==
  /\ pc = "combine" /\ path_i <= Len(required_paths_methods)
  /\ \E path \in {required_paths_methods[path_i].path} :
       \E methods \in {required_paths_methods[path_i].methods} :
         \E s \in {FirstSpec(specs, path, methods, 1)} :
           \E extracted \in
                {IF s = 0 THEN EmptyDoc
                 ELSE ExtractPathsOf(
                        specs[s],
                        <<[path |-> path,
                           methods |-> AvailableMethods(
                                         Get(Get(specs[s], <<"paths">>), path),
                                         methods)]>>)} :
             /\ combined_paths' = Update(combined_paths, extracted, 1)
             /\ combined_components' =
                  IF s = 0 THEN combined_components
                  ELSE MergeComponents(
                         combined_components,
                         CollectReferencedComponents(specs[s], extracted), 1)
             /\ warnings' = IF s = 0 THEN Append(warnings, path) ELSE warnings
  /\ path_i' = path_i + 1
  /\ UNCHANGED <<pc, api_spec, required_paths_methods, extracted_paths,
                 referenced_components, processed_refs, walk, expansions,
                 properties_to_remove, inst_i, specs>>
  /\ UNCHANGED <<graph, locations>>
  /\ UNCHANGED docVars /\ UNCHANGED dfsVars /\ UNCHANGED breakVars

\* the loop over the required paths has ended
CombineReturn ==
  /\ pc = "combine" /\ path_i > Len(required_paths_methods)
  /\ pc' = "combined"
  /\ UNCHANGED <<graph, locations>>
  /\ UNCHANGED docVars /\ UNCHANGED dfsVars /\ UNCHANGED breakVars
  /\ UNCHANGED closureVars

\* --------------------------------------------------- documents as inputs
\* the names a document's schemas and references are drawn from
SchemaNames == {Name(i) : i \in 1..3}

Ref(t) == DictNode(<<Entry(RefKey, StrNode(SchemaRef(t)))>>)

Props(key, v) == DictNode(<<Entry(<<"properties">>, DictNode(<<Entry(key, v)>>))>>)

\* the usual schema bodies holding exactly r references: a plain object, a
\* reference below a property, a list of two references, a list of three
PlainBodies(r) ==
  IF r = 0 THEN {DictNode(<<Entry(<<"type">>, StrNode(<<"object">>))>>)}
  ELSE IF r = 1 THEN {Props(<<"p">>, Ref(t)) : t \in SchemaNames}
  ELSE IF r = 2
  THEN {DictNode(<<Entry(<<"allOf">>, ListNode(<<Ref(t), Ref(u)>>))>>) :
          t, u \in SchemaNames}
  ELSE IF r = 3
  THEN {DictNode(<<Entry(<<"allOf">>, ListNode(<<Ref(t), Ref(t), Ref(t)>>))>>) :
          t \in SchemaNames}
  ELSE {}

\* the unusual ones.  No schema reference: a reference into another namespace,
\* and a property that is itself named $ref.  One reference to t: as the whole
\* body, below a key made of digits, below a key holding '/', and beside a
\* sibling key
SpecialBodies(r) ==
  IF r = 0
  THEN {Props(<<"p">>, DictNode(<<Entry(RefKey,
               StrNode(<<"#", "/", "components", "/", "parameters", "/", "A">>))>>)),
        Props(RefKey, DictNode(<<Entry(<<"type">>, StrNode(<<"string">>))>>))}
  ELSE IF r = 1
  THEN UNION {{Ref(t),
               Props(<<"1">>, Ref(t)),
               Props(<<"a", "/", "b">>, Ref(t)),
               Props(<<"p">>, DictNode(<<Entry(RefKey, StrNode(SchemaRef(t))),
                                         Entry(<<"description">>, StrNode(<<"x">>))>>))} :
              t \in SchemaNames}
  ELSE {}

\* the bodies a schema may have: r references, unusual or not
BodiesOf(r, special) == IF special THEN SpecialBodies(r) ELSE PlainBodies(r)

\* a document: paths and parameters that refer to schema A, and the schemas
Document(schemas) ==
  DictNode(<<Entry(<<"openapi">>, StrNode(<<"3.0.0">>)),
             Entry(<<"paths">>, DictNode(<<Entry(<<"/", "a">>, Ref(Name(1)))>>)),
             Entry(<<"components">>,
                   DictNode(<<Entry(<<"parameters">>,
                                    DictNode(<<Entry(<<"A">>, Ref(Name(1)))>>)),
                              Entry(<<"schemas">>, DictNode(schemas))>>))>>)

\* the documents: two or three schemas holding at most MaxRefs references in
\* all, at most MaxSpecial of them with an unusual body
IsDocument(doc) ==
  \E n \in 2..3 :
    \E r \in [1..n -> 0..MaxRefs], sp \in [1..n -> BOOLEAN] :
      /\ (IF n = 2 THEN r[1] + r[2] ELSE r[1] + r[2] + r[3]) <= MaxRefs
      /\ Cardinality({i \in 1..n : sp[i]}) <= MaxSpecial
      /\ \E b1 \in BodiesOf(r[1], sp[1]), b2 \in BodiesOf(r[2], sp[2]) :
           IF n = 2
           THEN doc = Document(<<Entry(Name(1), b1), Entry(Name(2), b2)>>)
           ELSE \E b3 \in BodiesOf(r[3], sp[3]) :
                  doc = Document(<<Entry(Name(1), b1), Entry(Name(2), b2),
                                   Entry(Name(3), b3)>>)

\* ------------------------------------------------------ graphs as inputs
RECURSIVE DistinctSeqs(_, _)
\* the sequences of at most n distinct members of S
DistinctSeqs(S, n) ==
  IF n = 0 THEN {<<>>}
  ELSE {<<>>} \cup UNION {{<<x>> \o r : r \in DistinctSeqs(S \ {x}, n - 1)} : x \in S}

RECURSIVE GraphsFrom(_, _, _)
\* the graphs on keys Name(i)..Name(n) with at most budget edges
GraphsFrom(i, n, budget) ==
  IF i > n THEN {<<>>}
  ELSE UNION {{<<[node |-> Name(i), nbrs |-> l]>> \o rest :
                 rest \in GraphsFrom(i + 1, n, budget - Len(l))} :
              l \in DistinctSeqs(Names, budget)}

InitCycles ==
  /\ pc = "dfs"
  /\ \E n \in 1..MaxNodes : graph \in GraphsFrom(1, n, MaxEdges)
  /\ locations = <<>>
  /\ input = EmptyDoc /\ heap = [caller |-> EmptyDoc, copy |-> EmptyDoc]
  /\ result = "caller"
  /\ roots = 1 /\ stack = <<>> /\ cycles = <<>> /\ unique_cycles = <<>>
  /\ expanded = [n \in {} |-> 0]
  /\ breaking_points = <<>> /\ bp_i = 1 /\ loc_i = 1 /\ removed_refs = <<>>
  /\ reapplied = FALSE
  /\ ClosureIdle

DfsSteps == DfsRoot \/ DfsEnter \/ DfsNext \/ DfsReturn

SpecCycles == InitCycles /\ [][DfsSteps]_vars

FairCycles == SpecCycles /\ WF_vars(DfsSteps)

\* ------------------------------------------------ source documents as inputs
\* f"#/components/{type}/{name}"
CompRefString(type, name) == <<"#", "/", "components", "/", type, "/">> \o name

RefTo(s) == DictNode(<<Entry(RefKey, StrNode(s))>>)

CompRef(type, name) == RefTo(CompRefString(type, name))

\* references to the schemas a source document has
PlainItems == {CompRef("schemas", Name(1)), CompRef("schemas", Name(2))}

\* the unusual ones: a name and a type the document lacks, a reference that
\* goes on below the component, one that is not into components, a mapping
\* below a key named $ref, and a reference into another file
SpecialItems ==
  {CompRef("schemas", Name(3)),
   CompRef("responses", Name(1)),
   RefTo(CompRefString("schemas", Name(1)) \o <<"/", "properties", "/", "x">>),
   RefTo(<<"#", "/", "definitions", "/", "A">>),
   DictNode(<<Entry(RefKey, CompRef("schemas", Name(2)))>>),
   RefTo(<<"other.yaml#", "/", "components", "/", "schemas", "/">> \o Name(2))}

\* a body holding the items: none, one below a key, two in a list
BodyOf(items) ==
  IF items = <<>> THEN DictNode(<<Entry(<<"type">>, StrNode(<<"string">>))>>)
  ELSE IF Len(items) = 1 THEN DictNode(<<Entry(<<"schema">>, items[1])>>)
  ELSE DictNode(<<Entry(<<"allOf">>, ListNode(items))>>)

PlainSeqs == UNION {[1..n -> PlainItems] : n \in 0..2}

ItemSeqs == UNION {[1..n -> PlainItems \cup SpecialItems] : n \in 0..2}

Specials(items) == Cardinality({i \in 1..Len(items) : items[i] \in SpecialItems})

\* a source document: GET /a is the operation under test, POST /a and GET /b
\* refer to schema A and to parameter A, parameter A refers to schema B;
\* schema B is stored before schema A
ApiSpec(entry, a, b) ==
  DictNode(<<
    Entry(<<"openapi">>, StrNode(<<"3.0.0">>)),
    Entry(<<"paths">>, DictNode(<<
      Entry(<<"/", "a">>, DictNode(<<
        Entry(<<"get">>, entry),
        Entry(<<"post">>,
              DictNode(<<Entry(<<"requestBody">>, CompRef("schemas", Name(1)))>>))>>)),
      Entry(<<"/", "b">>, DictNode(<<
        Entry(<<"get">>,
              DictNode(<<Entry(<<"parameters">>,
                               ListNode(<<CompRef("parameters", Name(1))>>))>>))>>))>>)),
    Entry(<<"components">>, DictNode(<<
      Entry(<<"schemas">>, DictNode(<<Entry(Name(2), b), Entry(Name(1), a)>>)),
      Entry(<<"parameters">>, DictNode(<<
        Entry(Name(1),
              DictNode(<<Entry(<<"schema">>, CompRef("schemas", Name(2)))>>))>>))>>))>>)

\* the source documents: at most MaxRefs references in the three bodies, at
\* most MaxSpecial of them unusual, which schema A holds
IsApiSpec(doc) ==
  \E entry \in PlainSeqs :
    \E a \in {s \in ItemSeqs : Len(entry) + Len(s) <= MaxRefs
                               /\ Specials(s) <= MaxSpecial} :
      \E b \in {s \in PlainSeqs : Len(entry) + Len(a) + Len(s) <= MaxRefs} :
        doc = ApiSpec(BodyOf(entry), BodyOf(a), BodyOf(b))

\* the requests: the operation under test, written in upper case; the fixed
\* operations with a path and a method the document lacks; nothing present
Requests ==
  {<<[path |-> <<"/", "a">>, methods |-> <<<<"GET">>>>]>>,
   <<[path |-> <<"/", "b">>, methods |-> <<<<"get">>, <<"post">>>>],
     [path |-> <<"/", "c">>, methods |-> <<<<"get">>>>],
     [path |-> <<"/", "a">>, methods |-> <<<<"POST">>>>]>>,
   <<[path |-> <<"/", "a">>, methods |-> <<<<"Put">>>>]>>}

InitClosure ==
  /\ pc = "extract"
  /\ IsApiSpec(api_spec)
  /\ required_paths_methods \in Requests
  /\ extracted_paths = EmptyDoc /\ referenced_components = EmptyDoc
  /\ processed_refs = {} /\ walk = <<>> /\ expansions = <<>>
  /\ BatchIdle
  /\ graph = <<>> /\ locations = <<>>
  /\ input = EmptyDoc /\ heap = [caller |-> EmptyDoc, copy |-> EmptyDoc]
  /\ result = "caller"
  /\ roots = 1 /\ stack = <<>> /\ cycles = <<>> /\ unique_cycles = <<>>
  /\ expanded = [n \in {} |-> 0]
  /\ breaking_points = <<>> /\ bp_i = 1 /\ loc_i = 1 /\ removed_refs = <<>>
  /\ reapplied = FALSE

ClosureSteps ==
  ExtractPaths \/ CollectBegin \/ ProcessRef \/ WalkReturn \/ CollectReturn

SpecClosure == InitClosure /\ [][ClosureSteps]_vars

FairClosure == SpecClosure /\ WF_vars(ClosureSteps)

\* --------------------------------------------- documents for the graph
\* a body that holds two references to t: one below the key 'a/b', one below
\* the key 'b' of the mapping under the key 'a'
TwinBody(t) ==
  DictNode(<<Entry(<<"properties">>,
                   DictNode(<<Entry(<<"a", "/", "b">>, Ref(t)),
                              Entry(<<"a">>,
                                    DictNode(<<Entry(<<"b">>, Ref(t))>>))>>))>>)

\* build_reference_graph called on a document, or on one whose schema A has
\* such a body
InitGraph ==
  /\ pc = "build"
  /\ \/ IsDocument(input)
     \/ \E t \in SchemaNames :
          input = Document(<<Entry(Name(1), TwinBody(t)),
                             Entry(Name(2), Ref(Name(1)))>>)
  /\ heap = [caller |-> input, copy |-> EmptyDoc]
  /\ result = "caller"
  /\ graph = <<>> /\ locations = <<>>
  /\ roots = 1 /\ stack = <<>> /\ cycles = <<>> /\ unique_cycles = <<>>
  /\ expanded = [n \in {} |-> 0]
  /\ breaking_points = <<>> /\ bp_i = 1 /\ loc_i = 1 /\ removed_refs = <<>>
  /\ reapplied = FALSE
  /\ ClosureIdle

SpecGraph == InitGraph /\ [][BuildReferenceGraph]_vars

\* ------------------------------------------------ instructions as inputs
\* the most properties the instructions of one batch name in all
MaxProps == 2

Field(type) == DictNode(<<Entry(<<"type">>, StrNode(<<type>>))>>)

\* the component bodies: an object with two properties, an allOf of a
\* reference and an object, an object that has properties and an allOf, a
\* string
ObjectBody ==
  DictNode(<<Entry(<<"type">>, StrNode(<<"object">>)),
             Entry(<<"description">>, StrNode(<<"d">>)),
             Entry(<<"properties">>,
                   DictNode(<<Entry(<<"id">>, Field("string")),
                              Entry(<<"name">>, Field("string"))>>))>>)

AllOfBody ==
  DictNode(<<Entry(<<"allOf">>,
                   ListNode(<<CompRef("schemas", Name(2)),
                              DictNode(<<Entry(<<"properties">>,
                                DictNode(<<Entry(<<"id">>, Field("string")),
                                           Entry(<<"name">>, Field("string"))>>))>>)>>))>>)

MixedBody ==
  DictNode(<<Entry(<<"properties">>, DictNode(<<Entry(<<"id">>, Field("string"))>>)),
             Entry(<<"allOf">>,
                   ListNode(<<DictNode(<<Entry(<<"properties">>,
                                DictNode(<<Entry(<<"name">>, Field("string"))>>))>>)>>))>>)

StringBody ==
  DictNode(<<Entry(<<"type">>, StrNode(<<"string">>)),
             Entry(<<"description">>, StrNode(<<"d">>))>>)

\* a source document whose operation GET /a refers to schema A, to schema B
\* and to parameter A
PruneSpec(a, b) ==
  DictNode(<<
    Entry(<<"openapi">>, StrNode(<<"3.0.0">>)),
    Entry(<<"paths">>, DictNode(<<
      Entry(<<"/", "a">>, DictNode(<<
        Entry(<<"get">>, DictNode(<<
          Entry(<<"parameters">>, ListNode(<<CompRef("parameters", Name(1))>>)),
          Entry(<<"requestBody">>, CompRef("schemas", Name(2))),
          Entry(<<"responses">>, CompRef("schemas", Name(1)))>>))>>))>>)),
    Entry(<<"components">>, DictNode(<<
      Entry(<<"schemas">>, DictNode(<<Entry(Name(2), b), Entry(Name(1), a)>>)),
      Entry(<<"parameters">>, DictNode(<<
        Entry(Name(1),
              DictNode(<<Entry(<<"name">>, StrNode(<<"id">>)),
                         Entry(<<"in">>, StrNode(<<"query">>)),
                         Entry(<<"description">>, StrNode(<<"d">>))>>))>>))>>))>>)

\* the properties an instruction may name
PropertyPool ==
  {<<"id">>, <<"name">>, <<"zz">>, <<"description">>, <<"properties">>}

RECURSIVE BatchesFrom(_, _)
\* the batches that name the components names, in that order, and at most
\* budget properties in all
BatchesFrom(names, budget) ==
  IF names = <<>> THEN {<<>>}
  ELSE UNION {{<<[name |-> names[1], properties |-> ps]>> \o rest :
                 ps \in [1..k -> PropertyPool],
                 rest \in BatchesFrom(Tail(names), budget - k)} :
              k \in 0..budget}

\* shorten_api_spec at its call of remove_component_properties: the closure of
\* GET /a is collected, the batch names one to three components, C is none
InitPrune ==
  /\ pc = "prune"
  /\ \E a \in {ObjectBody, AllOfBody, MixedBody, StringBody},
        b \in {ObjectBody, StringBody} : api_spec = PruneSpec(a, b)
  /\ required_paths_methods = <<[path |-> <<"/", "a">>, methods |-> <<<<"GET">>>>]>>
  /\ extracted_paths = ExtractPathsOf(api_spec, required_paths_methods)
  /\ referenced_components = CollectReferencedComponents(api_spec, extracted_paths)
  /\ \E names \in DistinctSeqs(SchemaNames, 3) \ {<<>>} :
       properties_to_remove \in BatchesFrom(names, MaxProps)
  /\ inst_i = 1
  /\ processed_refs = {} /\ walk = <<>> /\ expansions = <<>>
  /\ specs = <<>> /\ combined_paths = EmptyDoc /\ combined_components = EmptyDoc
  /\ path_i = 1 /\ warnings = <<>>
  /\ graph = <<>> /\ locations = <<>>
  /\ input = EmptyDoc /\ heap = [caller |-> EmptyDoc, copy |-> EmptyDoc]
  /\ result = "caller"
  /\ roots = 1 /\ stack = <<>> /\ cycles = <<>> /\ unique_cycles = <<>>
  /\ expanded = [n \in {} |-> 0]
  /\ breaking_points = <<>> /\ bp_i = 1 /\ loc_i = 1 /\ removed_refs = <<>>
  /\ reapplied = FALSE

PruneSteps == RemoveProperties \/ PruneReturn

SpecPrune == InitPrune /\ [][PruneSteps]_vars

\* ------------------------------------------------- two runs on one document
\* an object whose property id refers to schema C and whose property name
\* refers to schema B
LinkedBody ==
  DictNode(<<Entry(<<"type">>, StrNode(<<"object">>)),
             Entry(<<"properties">>,
                   DictNode(<<Entry(<<"id">>, CompRef("schemas", Name(3))),
                              Entry(<<"name">>, CompRef("schemas", Name(2)))>>))>>)

\* a source document whose operation GET /a refers to schema A only
RerunSpec(a) ==
  DictNode(<<
    Entry(<<"openapi">>, StrNode(<<"3.0.0">>)),
    Entry(<<"paths">>, DictNode(<<
      Entry(<<"/", "a">>, DictNode(<<
        Entry(<<"get">>, DictNode(<<
          Entry(<<"responses">>, CompRef("schemas", Name(1)))>>))>>))>>)),
    Entry(<<"components">>, DictNode(<<
      Entry(<<"schemas">>, DictNode(<<Entry(Name(3), StringBody),
                                      Entry(Name(2), ObjectBody),
                                      Entry(Name(1), a)>>))>>))>>)

\* shorten_api_spec at its call of remove_component_properties, as InitPrune
InitRerun ==
  /\ pc = "prune"
  /\ \E a \in {ObjectBody, AllOfBody, LinkedBody} : api_spec = RerunSpec(a)
  /\ required_paths_methods = <<[path |-> <<"/", "a">>, methods |-> <<<<"GET">>>>]>>
  /\ extracted_paths = ExtractPathsOf(api_spec, required_paths_methods)
  /\ referenced_components = CollectReferencedComponents(api_spec, extracted_paths)
  /\ \E names \in DistinctSeqs(SchemaNames, 3) \ {<<>>} :
       properties_to_remove \in BatchesFrom(names, MaxProps)
  /\ inst_i = 1
  /\ processed_refs = {} /\ walk = <<>> /\ expansions = <<>>
  /\ specs = <<>> /\ combined_paths = EmptyDoc /\ combined_components = EmptyDoc
  /\ path_i = 1 /\ warnings = <<>>
  /\ graph = <<>> /\ locations = <<>>
  /\ input = EmptyDoc /\ heap = [caller |-> EmptyDoc, copy |-> EmptyDoc]
  /\ result = "caller"
  /\ roots = 1 /\ stack = <<>> /\ cycles = <<>> /\ unique_cycles = <<>>
  /\ expanded = [n \in {} |-> 0]
  /\ breaking_points = <<>> /\ bp_i = 1 /\ loc_i = 1 /\ removed_refs = <<>>
  /\ reapplied = FALSE

RerunSteps == RemoveProperties \/ PruneReturn \/ Rerun

SpecRerun == InitRerun /\ [][RerunSteps]_vars

\* ------------------------------------------------- input specs as inputs
\* the most input specs of one call
MaxSpecs == 2

\* schema A as a string, and as an array of schema B
ArrayBody == DictNode(<<Entry(<<"items">>, CompRef("schemas", Name(2)))>>)

\* an input spec: GET /a answers with schema A, POST /b takes schema B
CombineSpec(has_a, has_b, a) ==
  DictNode(<<
    Entry(<<"openapi">>, StrNode(<<"3.0.0">>)),
    Entry(<<"paths">>, DictNode(
      (IF has_a
       THEN <<Entry(<<"/", "a">>, DictNode(<<
                Entry(<<"get">>, DictNode(<<
                  Entry(<<"responses">>, CompRef("schemas", Name(1)))>>))>>))>>
       ELSE <<>>)
      \o
      (IF has_b
       THEN <<Entry(<<"/", "b">>, DictNode(<<
                Entry(<<"post">>, DictNode(<<
                  Entry(<<"requestBody">>, CompRef("schemas", Name(2)))>>))>>))>>
       ELSE <<>>))),
    Entry(<<"components">>, DictNode(<<
      Entry(<<"schemas">>,
            DictNode(<<Entry(Name(2), StringBody), Entry(Name(1), a)>>))>>))>>)

\* the input specs: with /a, with /b, with both, with neither, and one that
\* has no paths at all
SpecPool ==
  {CombineSpec(has_a, has_b, a) :
     has_a \in BOOLEAN, has_b \in BOOLEAN, a \in {StringBody, ArrayBody}}
    \cup {DictNode(<<Entry(<<"openapi">>, StrNode(<<"3.0.0">>))>>)}

\* the paths asked for, /c is in no input spec; the methods asked for
PathPool == {<<"/", "a">>, <<"/", "b">>, <<"/", "c">>}

MethodsPool == {<<<<"GET">>>>, <<<<"POST">>>>, <<<<"get">>, <<"post">>>>}

\* process_combined_specs at its loop over the required paths
InitCombine ==
  /\ pc = "combine"
  /\ \E n \in 0..MaxSpecs : specs \in [1..n -> SpecPool]
  /\ \E paths \in DistinctSeqs(PathPool, 3) \ {<<>>} :
       \E methods \in [1..Len(paths) -> MethodsPool] :
         required_paths_methods =
           [i \in 1..Len(paths) |-> [path |-> paths[i], methods |-> methods[i]]]
  /\ combined_paths = EmptyDoc /\ combined_components = EmptyDoc
  /\ path_i = 1 /\ warnings = <<>>
  /\ api_spec = EmptyDoc
  /\ extracted_paths = EmptyDoc /\ referenced_components = EmptyDoc
  /\ processed_refs = {} /\ walk = <<>> /\ expansions = <<>>
  /\ properties_to_remove = <<>> /\ inst_i = 1
  /\ graph = <<>> /\ locations = <<>>
  /\ input = EmptyDoc /\ heap = [caller |-> EmptyDoc, copy |-> EmptyDoc]
  /\ result = "caller"
  /\ roots = 1 /\ stack = <<>> /\ cycles = <<>> /\ unique_cycles = <<>>
  /\ expanded = [n \in {} |-> 0]
  /\ breaking_points = <<>> /\ bp_i = 1 /\ loc_i = 1 /\ removed_refs = <<>>
  /\ reapplied = FALSE

CombineSteps == CombinePath \/ CombineReturn

SpecCombine == InitCombine /\ [][CombineSteps]_vars

\* --------------------------------------------- breaking points as inputs
\* the most locations the breaking points of one call hold in all
MaxLocations == 2

\* the bodies of schema A: a reference to itself below a property, a list of
\* two references, a reference beside a sibling key
RemovalBodies ==
  {Props(<<"p">>, Ref(Name(1))),
   DictNode(<<Entry(<<"allOf">>, ListNode(<<Ref(Name(1)), Ref(Name(2))>>))>>),
   Props(<<"p">>, DictNode(<<Entry(RefKey, StrNode(SchemaRef(Name(2)))),
                             Entry(<<"description">>, StrNode(<<"x">>))>>))}

\* a document whose schemas are A and B
RemovalDocument(body) ==
  Document(<<Entry(Name(1), body),
             Entry(Name(2), DictNode(<<Entry(<<"type">>, StrNode(<<"object">>))>>))>>)

\* the locations a breaking point may hold: the places of the references, a
\* key no body has, an index past the end of the list, a place below a
\* reference
LocationPool ==
  {<<"properties", "/", "p">>, <<"properties", "/", "q">>,
   <<"allOf", "/", "0">>, <<"allOf", "/", "1">>, <<"allOf", "/", "2">>,
   <<"properties", "/", "p", "/", "$ref">>}

\* the break edges: out of A to A and to B, and out of C, which no document has
EdgePool ==
  {<<Name(1), Name(1)>>, <<Name(1), Name(2)>>, <<Name(3), Name(1)>>}

\* the sequences of n locations
LocationSeqs(n) == [1..n -> LocationPool]

\* a breaking point as find_breaking_points records it
PointOf(edge, locs) ==
  [cycle |-> <<edge[1], edge[2], edge[1]>>,
   break_edge |-> edge,
   reference_count |-> Len(locs),
   locations |-> locs]

\* one or two breaking points holding at most MaxLocations locations in all
BreakingPointsPool ==
  UNION {{<<PointOf(e, ls)>> : e \in EdgePool, ls \in LocationSeqs(n)} :
           n \in 0..MaxLocations}
    \cup
  UNION {UNION {{<<PointOf(ef[1], ls), PointOf(ef[2], ms)>> :
                   ef \in EdgePool \X EdgePool,
                   ls \in LocationSeqs(n), ms \in LocationSeqs(m)} :
                  m \in 0..(MaxLocations - n)} :
           n \in 0..MaxLocations}

\* remove_circular_references called on a document and breaking points
InitRemove ==
  /\ pc = "copy"
  /\ \E body \in RemovalBodies : input = RemovalDocument(body)
  /\ heap = [caller |-> input, copy |-> EmptyDoc]
  /\ result = "caller"
  /\ breaking_points \in BreakingPointsPool
  /\ bp_i = 1 /\ loc_i = 1 /\ removed_refs = <<>>
  /\ reapplied = FALSE
  /\ graph = <<>> /\ locations = <<>>
  /\ roots = 1 /\ stack = <<>> /\ cycles = <<>> /\ unique_cycles = <<>>
  /\ expanded = [n \in {} |-> 0]
  /\ ClosureIdle

\* remove_circular_references called on its own output, with the same
\* breaking points
Reapply ==
  /\ pc = "done" /\ ~reapplied
  /\ input' = heap[result]
  /\ heap' = [caller |-> heap[result], copy |-> EmptyDoc]
  /\ result' = "caller"
  /\ bp_i' = 1 /\ loc_i' = 1 /\ removed_refs' = <<>>
  /\ reapplied' = TRUE
  /\ pc' = "copy"
  /\ UNCHANGED <<breaking_points, graph, locations>>
  /\ UNCHANGED dfsVars /\ UNCHANGED closureVars

RemoveSteps == CopySpec \/ RemoveLocation \/ NextPoint \/ RemoveReturn \/ Reapply

SpecRemove == InitRemove /\ [][RemoveSteps]_vars

\* ------------------------------------------------------ claims: the closure
RECURSIVE AllRefs(_)
\* every string held under a $ref key, at any depth of obj
AllRefs(obj) ==
  IF IsStr(obj) THEN {}
  ELSE UNION {IF IsDict(obj) /\ obj.e[i].key = RefKey /\ IsStr(obj.e[i].v)
              THEN {obj.e[i].v.s}
              ELSE AllRefs(obj.e[i].v) : i \in 1..Len(obj.e)}

\* the (type, name) pairs of the components a document has
ComponentsOf(spec) ==
  UNION {{<<Components(spec).e[i].key, Components(spec).e[i].v.e[j].key>> :
            j \in 1..Len(Components(spec).e[i].v.e)} :
         i \in 1..Len(Components(spec).e)}

ComponentBody(spec, c) == Get(Get(Components(spec), c[1]), c[2])

\* the reference is to component c, or to something below it
Names_(ref, c) ==
  LET whole == <<"#", "/", "components", "/">> \o c[1] \o <<"/">> \o c[2]
  IN ref = whole \/ StartsWith(ref, whole \o <<"/">>)

TargetsOf(spec, ref) == {c \in ComponentsOf(spec) : Names_(ref, c)}

RECURSIVE ReachFrom(_, _)
\* the least set of reference strings that holds S and the references in the
\* body of every component a member names
ReachFrom(spec, S) ==
  LET next == S \cup UNION {AllRefs(ComponentBody(spec, c)) :
                              c \in UNION {TargetsOf(spec, r) : r \in S}}
  IN IF next = S THEN S ELSE ReachFrom(spec, next)

\* the references reachable from the extracted operation bodies
Reachable == ReachFrom(api_spec, AllRefs(extracted_paths))

\* component c is in the closure, with the body the source has for it
Collected(c) ==
  /\ HasKey(referenced_components, c[1])
  /\ HasKey(Get(referenced_components, c[1]), c[2])
  /\ Get(Get(referenced_components, c[1]), c[2]) = ComponentBody(api_spec, c)

\* C1: when collect_referenced_components has returned, every component that
\* a reference reachable from the extracted operation bodies names, directly
\* or through the bodies of other components, is in the closure, unless the
\* source document has no such component.
C1_Complete ==
  pc = "collected" =>
    \A r \in Reachable : \A c \in TargetsOf(api_spec, r) : Collected(c)

\* a run that collected a component no operation body refers to directly and
\* that met a reference to a component the source lacks
C1_Witness ==
  /\ pc = "collected"
  /\ \E r \in Reachable \ AllRefs(extracted_paths) :
       \E c \in TargetsOf(api_spec, r) : Collected(c)
  /\ \E r \in Reachable : TargetsOf(api_spec, r) = {}

NoRepeat(s) == \A i, j \in 1..Len(s) : i # j => s[i] # s[j]

Count(obj, key) == Cardinality({i \in 1..Len(obj.e) : obj.e[i].key = key})

\* C2: collect_referenced_components returns on every source document, also
\* when components refer to each other in a cycle or to themselves; no
\* reference string passes process_ref's test twice; and every component the
\* reachable references name is in the closure exactly once.
C2_Terminates ==
  /\ <>(pc = "collected")
  /\ [](NoRepeat(expansions))
  /\ [](pc = "collected" =>
          \A r \in Reachable : \A c \in TargetsOf(api_spec, r) :
            /\ HasKey(referenced_components, c[1])
            /\ Count(Get(referenced_components, c[1]), c[2]) = 1)

\* schemas A and B refer to each other, A also to itself, and both were
\* collected
C2_Witness ==
  /\ pc = "collected"
  /\ {CompRefString("schemas", Name(1)), CompRefString("schemas", Name(2))}
       \subseteq AllRefs(ComponentBody(api_spec, <<<<"schemas">>, Name(1)>>))
  /\ CompRefString("schemas", Name(1))
       \in AllRefs(ComponentBody(api_spec, <<<<"schemas">>, Name(2)>>))
  /\ Collected(<<<<"schemas">>, Name(1)>>)
  /\ Collected(<<<<"schemas">>, Name(2)>>)

\* ------------------------------------------------- claims: detect_cycles
Returned == pc \notin {"build", "detect", "dfs", "raised"}

\* g has the edge a -> b
HasEdge(g, a, b) ==
  \E i \in 1..Len(g) : g[i].node = a /\ b \in SeqRange(g[i].nbrs)

\* the closed walk body \o <<body[1]>> started k places later
Rotate(body, k) ==
  [i \in 1..(Len(body) + 1) |-> body[((i + k - 1) % Len(body)) + 1]]

\* c and d are the same cycle as cyclic sequences
SameCycle(c, d) ==
  /\ Len(c) = Len(d) /\ Len(c) >= 2
  /\ \E k \in 0..(Len(c) - 2) : d = Rotate(SubSeq(c, 1, Len(c) - 1), k)

\* the simple directed cycles of g, each as the sequence of its nodes
SimpleCycles(g) ==
  {s \in DistinctSeqs(Names, MaxNodes) :
     /\ s # <<>>
     /\ \A i \in 1..Len(s) : HasEdge(g, s[i], s[(i % Len(s)) + 1])}

IsCycleOf(g, c) ==
  /\ Len(c) >= 2
  /\ c[1] = c[Len(c)]
  /\ \A i \in 1..(Len(c) - 1) : HasEdge(g, c[i], c[i + 1])
  /\ \A i, j \in 1..(Len(c) - 1) : i # j => c[i] # c[j]

\* C3: detect_cycles is complete: it returns no cycle for an acyclic graph,
\* and for every simple directed cycle of the graph some returned cycle visits
\* exactly that cycle's nodes in that cyclic order.
C3_Complete ==
  Returned =>
    /\ SimpleCycles(graph) = {} => unique_cycles = <<>>
    /\ \A s \in SimpleCycles(graph) :
         \E i \in 1..Len(unique_cycles) :
           SameCycle(unique_cycles[i], Append(s, s[1]))

C3_Witness ==
  /\ Returned
  /\ \E s \in SimpleCycles(graph) : Len(s) = 3
  /\ \E s \in SimpleCycles(graph) : Len(s) = 1

\* C4: every sequence detect_cycles returns is a genuine cycle of the graph:
\* at least two entries, first = last, every consecutive pair an edge, and no
\* node repeated other than the first/last one.
C4_Sound ==
  \A i \in 1..Len(unique_cycles) : IsCycleOf(graph, unique_cycles[i])

C4_Witness ==
  /\ Returned
  /\ \E i, j \in 1..Len(unique_cycles) :
       Len(unique_cycles[i]) = 2 /\ Len(unique_cycles[j]) = 4
  /\ \E i \in 1..Len(cycles) : cycles[i][1] # Keys(graph)[1]

\* C5: no two cycles returned by detect_cycles are rotations of each other
\* (the same cycle found from different roots collapses to one entry).
C5_NoRotations ==
  Returned =>
    \A i, j \in 1..Len(unique_cycles) :
      i # j => ~SameCycle(unique_cycles[i], unique_cycles[j])

\* C6: detect_cycles terminates on every finite graph (self-loops, overlapping
\* cycles, edges to nodes without an entry), and the depth of the search never
\* exceeds the number of nodes plus one.
C6_Terminates ==
  /\ [](Len(stack) <= Len(graph) + 1)
  /\ <>Returned

C6_Witness ==
  /\ Returned
  /\ \E a \in Names : HasEdge(graph, a, a)
  /\ \E a, b \in Names : a # b /\ HasEdge(graph, a, b) /\ HasEdge(graph, b, a)
  /\ \E a, b \in Names : HasEdge(graph, a, b) /\ b \notin SeqRange(Keys(graph))
  /\ Len(unique_cycles) >= 3

\* ------------------------------------------ claims: breaking the cycles
\* the references build_reference_graph finds in schema src of doc
HitsOf(doc, src) ==
  IF HasKey(SchemasOf(doc), src)
  THEN ExtractRefs(Get(SchemasOf(doc), src), <<>>)
  ELSE <<>>

\* schema src of doc refers to schema dst, at path loc
RefersAt(doc, src, dst, loc) ==
  \E h \in 1..Len(HitsOf(doc, src)) :
    HitsOf(doc, src)[h].ref = dst /\ HitsOf(doc, src)[h].path = loc

\* the graph rebuilt from doc has the edge src -> dst
Refers(doc, src, dst) ==
  \E h \in 1..Len(HitsOf(doc, src)) : HitsOf(doc, src)[h].ref = dst

\* every edge of the cycle is an edge of the graph rebuilt from doc
StillCycle(doc, cycle) ==
  \A i \in 1..(Len(cycle) - 1) : Refers(doc, cycle[i], cycle[i + 1])

\* C7: after remove_circular_references, for every breaking point computed on
\* the freshly built graph: none of its locations still holds a reference to
\* the edge's target, the break edge is absent from the rebuilt graph, and the
\* targeted cycle is no longer a cycle of it.
C7_EdgeBroken ==
  (pc = "done" /\ breaking_points # <<>>) =>
    \A i \in 1..Len(breaking_points) :
      LET src == breaking_points[i].break_edge[1]
          dst == breaking_points[i].break_edge[2]
      IN /\ \A l \in 1..Len(breaking_points[i].locations) :
              ~RefersAt(heap[result], src, dst, breaking_points[i].locations[l])
         /\ ~Refers(heap[result], src, dst)
         /\ ~StillCycle(heap[result], breaking_points[i].cycle)

\* C8: for every cycle find_breaking_points selects, among the cycle's
\* consecutive edges, an edge with the fewest recorded locations, and among
\* several such the one that comes first in the cycle's order.
C8_MinEdge ==
  \A b \in 1..Len(breaking_points) :
    LET edges == CycleEdges(breaking_points[b].cycle)
    IN \E i \in 1..Len(edges) :
         /\ breaking_points[b].break_edge = edges[i]
         /\ \A j \in 1..Len(edges) :
              EdgeCount(locations, edges[i]) <= EdgeCount(locations, edges[j])
         /\ \A j \in 1..(i - 1) :
              EdgeCount(locations, edges[j]) > EdgeCount(locations, edges[i])

\* X -> Y with 1 location is chosen over Y -> X with 3, which comes first
C8_Witness ==
  \E b \in 1..Len(breaking_points) :
    LET c == breaking_points[b].cycle
    IN /\ Len(c) = 3 /\ c[1] # c[2]
       /\ EdgeCount(locations, <<c[1], c[2]>>) = 3
       /\ EdgeCount(locations, <<c[2], c[1]>>) = 1
       /\ breaking_points[b].break_edge = <<c[2], c[1]>>

\* C9: remove_circular_references never mutates the document passed in: the
\* caller's document stays what it was, the rewrites are in the copy only.
C9_CallerUntouched == heap["caller"] = input

C9_Witness ==
  /\ pc = "done" /\ removed_refs # <<>>
  /\ result # "caller" /\ heap[result] # input

RECURSIVE LeafAt(_, _)
\* the node the segments lead to from current; a string node "none" when a
\* segment selects nothing
LeafAt(current, parts) ==
  IF parts = <<>> THEN current
  ELSE IF ChildIndex(current, parts[1]) = 0 THEN StrNode(<<"none">>)
  ELSE LeafAt(current.e[ChildIndex(current, parts[1])].v, Tail(parts))

\* the location the next turn of the loop works on, and what it resolves to
AtLocation == pc = "remove" /\ bp_i <= Len(breaking_points)
                /\ loc_i <= Len(breaking_points[bp_i].locations)

CurSrc == breaking_points[bp_i].break_edge[1]

CurDst == breaking_points[bp_i].break_edge[2]

CurLocation == breaking_points[bp_i].locations[loc_i]

CurLeaf ==
  LeafAt(Get(SchemasOf(heap[result]), CurSrc), Split(Strip(CurLocation)))

\* leaf is a placeholder for a removed reference to dst: exactly three fields,
\* none of them a reference
IsPlaceholderFor(leaf, dst) ==
  /\ IsDict(leaf) /\ Len(leaf.e) = 3
  /\ ~HasKey(leaf, RefKey)
  /\ HasKey(leaf, <<"x-removed-circular-ref">>)
  /\ Get(leaf, <<"x-removed-circular-ref">>) = StrNode(SchemaRef(dst))
  /\ HasKey(leaf, <<"type">>)
  /\ Get(leaf, <<"type">>) = StrNode(<<"object">>)
  /\ HasKey(leaf, <<"description">>)
  /\ IsStr(Get(leaf, <<"description">>))
  /\ ExtractRefs(leaf, <<>>) = <<>>

\* C10: when a location of a break edge S -> T resolves to a reference mapping
\* whose value is '#/components/schemas/T', the mapping is replaced by a
\* placeholder of exactly three fields (x-removed-circular-ref naming the
\* target reference, type 'object', a description), holding no reference, and
\* exactly one record (S, T, location) is appended to the log.
C10_Placeholder ==
  [][(AtLocation /\ CurLocation # <<>> /\ IsRefTo(CurLeaf, CurDst)) =>
       /\ \E leaf \in {LeafAt(Get(SchemasOf(heap'[result]), CurSrc),
                              Split(Strip(CurLocation)))} :
            IsPlaceholderFor(leaf, CurDst)
       /\ removed_refs' =
            Append(removed_refs,
                   [source_schema |-> CurSrc, target_schema |-> CurDst,
                    path |-> CurLocation])]_vars

\* a reference below a list index and one below a mapping key were rewritten
C10_Witness ==
  /\ pc = "done"
  /\ \E i, j \in 1..Len(removed_refs) :
       /\ IsDigit(Split(removed_refs[i].path)[Len(Split(removed_refs[i].path))])
       /\ ~IsDigit(Split(removed_refs[j].path)[Len(Split(removed_refs[j].path))])
       /\ Len(LeafAt(Get(SchemasOf(heap[result]), removed_refs[i].source_schema),
                     Split(removed_refs[i].path)).e) = 3

\* ------------------------------------------------- claims: the scenarios
\* schema name of the loaded document has one property, a reference to itself
IsSelfNode(name) ==
  /\ HasKey(SchemasOf(input), name)
  /\ Get(SchemasOf(input), name) = Props(<<"p">>, Ref(name))

\* C11: for a schema with one property that refers to the schema itself,
\* detect_cycles returns the cycle [Node, Node], the breaker turns the
\* reference at properties/<property> into a placeholder and logs it, and a
\* new scan of the schema's body in the output finds no reference to it.
C11_SelfCycle ==
  pc = "done" =>
    \A name \in SchemaNames :
      IsSelfNode(name) =>
        /\ \E i \in 1..Len(unique_cycles) : unique_cycles[i] = <<name, name>>
        /\ IsPlaceholderFor(LeafAt(Get(SchemasOf(heap[result]), name),
                                   <<<<"properties">>, <<"p">>>>), name)
        /\ \E i \in 1..Len(removed_refs) :
             removed_refs[i] = [source_schema |-> name, target_schema |-> name,
                                path |-> <<"properties", "/", "p">>]
        /\ ~Refers(heap[result], name, name)

\* the resolver has finished on a document with such a schema
C11_Witness ==
  /\ pc = "done"
  /\ \E name \in SchemaNames : IsSelfNode(name) /\ ~Refers(heap[result], name, name)

\* the (path, method) pairs a paths mapping holds
PairsOf(paths) ==
  UNION {{<<paths.e[i].key, paths.e[i].v.e[j].key>> :
            j \in 1..Len(paths.e[i].v.e)} : i \in 1..Len(paths.e)}

\* the spellings of one method name
CaseClasses == {{"get", "GET"}, {"post", "POST"}, {"put", "Put"}}

\* two method names that differ in letter case at most
SameMethod(a, b) ==
  /\ Len(a) = Len(b)
  /\ \A i \in 1..Len(a) :
       a[i] = b[i] \/ \E c \in CaseClasses : a[i] \in c /\ b[i] \in c

\* the request names this path and, in some letter case, this method
IsRequested(pair) ==
  \E i \in 1..Len(required_paths_methods) :
    /\ required_paths_methods[i].path = pair[1]
    /\ \E j \in 1..Len(required_paths_methods[i].methods) :
         SameMethod(required_paths_methods[i].methods[j], pair[2])

\* C12: extract_paths returns exactly the (path, method) pairs that are both
\* requested (in any letter case of the method) and present in the source,
\* each with the operation the source has for it; a path with no matching
\* method is not in the result.
C12_ExactPairs ==
  pc # "extract" =>
    /\ PairsOf(extracted_paths) =
         {pair \in PairsOf(Get(api_spec, <<"paths">>)) : IsRequested(pair)}
    /\ \A pair \in PairsOf(extracted_paths) :
         Get(Get(extracted_paths, pair[1]), pair[2]) =
           Get(Get(Get(api_spec, <<"paths">>), pair[1]), pair[2])
    /\ \A i \in 1..Len(extracted_paths.e) :
         /\ extracted_paths.e[i].v.e # <<>>
         /\ Count(extracted_paths, extracted_paths.e[i].key) = 1

\* the request in upper case kept GET /a and dropped POST /a and /b
C12_Witness ==
  /\ pc # "extract"
  /\ \E i \in 1..Len(required_paths_methods) :
       required_paths_methods[i].methods = <<<<"GET">>>>
  /\ PairsOf(extracted_paths) = {<<<<"/", "a">>, <<"get">>>>}

\* the bodies the closure builder walks: the extracted operations and the
\* components it collected
WalkedBodies ==
  {extracted_paths} \cup
  {ComponentBody(api_spec, c) : c \in {d \in ComponentsOf(api_spec) : Collected(d)}}

\* the reference has the form #/components/<type>/<name>, or goes on below
\* it, and the source has no component of that type and name
IsDangling(ref) ==
  \E type \in {<<"schemas">>, <<"parameters">>, <<"responses">>,
                <<"requestBodies">>} :
    \E name \in Names :
      Names_(ref, <<type, name>>) /\ <<type, name>> \notin ComponentsOf(api_spec)

\* C13: a reference that names no component of the source is dropped by
\* process_ref: the step adds nothing to the closure, raises nothing and goes
\* on with the rest of the body; and in the end every other reference of a
\* body that holds such a reference has been followed.
C13_DanglingDropped ==
  /\ [][(pc = "walk" /\ WalkTop # <<>>
          /\ IsDangling(Head(WalkTop))) =>
         (/\ pc' = "walk"
          /\ referenced_components' = referenced_components
          /\ walk' = [walk EXCEPT ![Len(walk)] = Tail(@)])]_vars
  /\ [](pc = "collected" =>
          \A body \in WalkedBodies :
            (\E r \in AllRefs(body) : IsDangling(r)) =>
              \A r \in AllRefs(body) : \A c \in TargetsOf(api_spec, r) :
                Collected(c))

\* schema A holds a dangling reference before a reference to schema B, and
\* both A and B were collected
C13_Witness ==
  /\ pc = "collected"
  /\ \E refs \in {FindRefs(ComponentBody(api_spec, <<<<"schemas">>, Name(1)>>))} :
       /\ Len(refs) = 2
       /\ IsDangling(refs[1])
       /\ refs[2] = CompRefString("schemas", Name(2))
  /\ Collected(<<<<"schemas">>, Name(1)>>)
  /\ Collected(<<<<"schemas">>, Name(2)>>)
  /\ CompRefString("schemas", Name(2)) \notin AllRefs(extracted_paths)
  /\ ~Collected(<<<<"parameters">>, Name(1)>>)

\* name a comes before name b: the names are single letters
NameBefore(a, b) ==
  \E i, j \in 1..Len(Letters) : i < j /\ a = <<Letters[i]>> /\ b = <<Letters[j]>>

\* C14: in the closure collect_referenced_components returns, the names
\* inside each type ascend, and no type without a component is a key; when
\* the extracted paths refer to nothing the closure is the empty mapping.
C14_SortedNoEmpty ==
  pc = "collected" =>
    /\ \A t \in 1..Len(referenced_components.e) :
         /\ referenced_components.e[t].v.e # <<>>
         /\ \A i, j \in 1..Len(referenced_components.e[t].v.e) :
              i < j => NameBefore(referenced_components.e[t].v.e[i].key,
                                  referenced_components.e[t].v.e[j].key)
    /\ AllRefs(extracted_paths) = {} => referenced_components = DictNode(<<>>)

\* schema B was collected before schema A, the closure lists A before B and
\* has no key for the parameters, of which none was collected
C14_Witness ==
  /\ pc = "collected"
  /\ Len(expansions) >= 2
  /\ expansions[1] = CompRefString("schemas", Name(2))
  /\ expansions[2] = CompRefString("schemas", Name(1))
  /\ HasKey(referenced_components, <<"schemas">>)
  /\ Len(Get(referenced_components, <<"schemas">>).e) = 2
  /\ Get(referenced_components, <<"schemas">>).e[1].key = Name(1)
  /\ ~HasKey(referenced_components, <<"parameters">>)

\* the (type, name) pairs the closure holds
ClosureOf(referenced) ==
  UNION {{<<referenced.e[i].key, referenced.e[i].v.e[j].key>> :
            j \in 1..Len(referenced.e[i].v.e)} : i \in 1..Len(referenced.e)}

\* C15: every component in the closure collect_referenced_components returns
\* is a component of the source that some reference reachable from the
\* extracted path bodies names; a component of the source that no such
\* reference names is not in the closure.
C15_Minimal ==
  pc = "collected" =>
    \A c \in ClosureOf(referenced_components) :
      /\ c \in ComponentsOf(api_spec)
      /\ \E r \in Reachable : c \in TargetsOf(api_spec, r)

\* ------------------------------------------- claims: the graph as built
RECURSIVE Occurrences(_)
\* the reference mappings at any depth of obj whose value starts with
\* '#/components/schemas/': where each is (the entries to follow from obj) and
\* the name it gives
Occurrences(obj) ==
  IF obj.k = "str" THEN {}
  ELSE (IF /\ obj.k = "dict"
           /\ \E i \in 1..Len(obj.e) :
                /\ obj.e[i].key = <<"$ref">> /\ obj.e[i].v.k = "str"
                /\ StartsWith(obj.e[i].v.s, SchemaContext)
        THEN {[pos |-> <<>>,
               ref |-> LET v == obj.e[CHOOSE i \in 1..Len(obj.e) :
                                        obj.e[i].key = <<"$ref">>].v.s
                       IN SubSeq(v, Len(SchemaContext) + 1, Len(v))]}
        ELSE {})
       \cup UNION {{[pos |-> <<i>> \o o.pos, ref |-> o.ref] :
                      o \in Occurrences(obj.e[i].v)} : i \in 1..Len(obj.e)}

RECURSIVE PathTo(_, _)
\* the mapping keys and list indices on the way from obj to pos, joined by '/'
PathTo(obj, pos) ==
  IF pos = <<>> THEN <<>>
  ELSE LET step == IF obj.k = "dict" THEN obj.e[pos[1]].key
                   ELSE StrOfNat(pos[1] - 1)
           rest == PathTo(obj.e[pos[1]].v, Tail(pos))
       IN IF rest = <<>> THEN step ELSE step \o <<"/">> \o rest

\* the location set stored under key, empty when there is none
StoredUnder(ls, key) ==
  UNION {SeqRange(ls[i].locs) : i \in {x \in 1..Len(ls) : ls[x].key = key}}

\* C21: build_reference_graph yields an edge S -> T exactly when the body of
\* schema S holds, at any depth, a reference '#/components/schemas/T' (a
\* reference into another namespace gives no edge), and the location set
\* stored under 'S -> T' holds the paths of those references, one path per
\* occurrence.
C21_EdgesAndLocations ==
  pc = "detect" =>
    \A s \in 1..Len(SchemasOf(input).e) :
      LET S == SchemasOf(input).e[s].key
          body == SchemasOf(input).e[s].v
          found == Occurrences(body)
      IN /\ \A o \in found : HasEdge(graph, S, o.ref)
         /\ \A g \in 1..Len(graph) :
              graph[g].node = S =>
                \A T \in SeqRange(graph[g].nbrs) : \E o \in found : o.ref = T
         /\ \A o \in found :
              LET same == {x \in found : x.ref = o.ref}
                  stored == StoredUnder(locations, S \o <<" -> ">> \o o.ref)
              IN /\ stored = {PathTo(body, x.pos) : x \in same}
                 /\ Cardinality(stored) = Cardinality(same)

\* ------------------------------------------- claims: the breaking points
\* find_breaking_points has returned
PointsFound == pc \in {"copy", "remove", "done"}

\* C22: find_breaking_points returns exactly one breaking point per cycle, in
\* the order of the cycles; the break edge of each is one of the consecutive
\* edges of its own cycle, its reference_count is the number of its listed
\* locations and, the cycles being detected on the graph the locations were
\* built with, at least 1.
C22_OnePointPerCycle ==
  PointsFound =>
    /\ Len(breaking_points) = Len(unique_cycles)
    /\ \A i \in 1..Len(breaking_points) :
         LET b == breaking_points[i]
         IN /\ b.cycle = unique_cycles[i]
            /\ \E j \in 1..(Len(b.cycle) - 1) :
                 b.break_edge = <<b.cycle[j], b.cycle[j + 1]>>
            /\ b.reference_count = Len(b.locations)
            /\ b.reference_count >= 1

\* two different cycles were given, one broken at an edge with two locations
C22_Witness ==
  /\ PointsFound
  /\ Len(breaking_points) >= 2
  /\ breaking_points[1].cycle # breaking_points[2].cycle
  /\ \E i \in 1..Len(breaking_points) : breaking_points[i].reference_count = 2

\* ------------------------------------------- claims: the exploration
\* C24: during the exploration from one root a node that was visited in an
\* earlier branch of that exploration is not descended into again, so each
\* node is expanded at most once per root.
C24_ExpandedOnce == \A n \in DOMAIN expanded : expanded[n] <= 1

\* ------------------------------------------- claims: what is rewritten
\* leaf holds nothing but a reference to schema dst
IsBareRefTo(leaf, dst) ==
  /\ IsDict(leaf) /\ Len(leaf.e) = 1
  /\ leaf.e[1].key = RefKey
  /\ leaf.e[1].v = StrNode(SchemaRef(dst))

\* C25: remove_ref rewrites a resolved leaf only when it is a mapping whose
\* single key is '$ref' and whose value is the expected target reference; a
\* mapping that holds that reference next to other keys is left as it is and
\* no record is appended for it.
C25_OnlyBareRefs ==
  [][(AtLocation /\ HasKey(SchemasOf(heap[result]), CurSrc)
        /\ (heap' # heap \/ removed_refs' # removed_refs))
       => IsBareRefTo(CurLeaf, CurDst)]_vars

\* ------------------------------------------- claims: one pass
RECURSIVE KeysTo(_, _)
\* the mapping keys on the way from obj to pos
KeysTo(obj, pos) ==
  IF pos = <<>> THEN {}
  ELSE (IF obj.k = "dict" THEN {obj.e[pos[1]].key} ELSE {})
         \cup KeysTo(obj.e[pos[1]].v, Tail(pos))

\* every schema reference of doc lies below the root of its schema's body,
\* and no key on the way to it is made of digits or holds a '/'
BelowPlainKeys(doc) ==
  \A s \in 1..Len(SchemasOf(doc).e) :
    LET body == SchemasOf(doc).e[s].v
    IN \A o \in Occurrences(body) :
         /\ o.pos # <<>>
         /\ \A key \in KeysTo(body, o.pos) :
              ~IsDigit(key) /\ "/" \notin SeqRange(key)

\* the edges of the graph rebuilt from doc
EdgesOf(doc) ==
  UNION {{<<SchemasOf(doc).e[s].key, o.ref>> :
            o \in Occurrences(SchemasOf(doc).e[s].v)} :
         s \in 1..Len(SchemasOf(doc).e)}

RECURSIVE PathsOf(_, _, _)
\* the pairs joined by a path of at most n + 1 edges of E
PathsOf(E, R, n) ==
  IF n = 0 THEN R
  ELSE PathsOf(E, R \cup {<<x[1][1], x[2][2]>> :
                            x \in {y \in R \X E : y[1][2] = y[2][1]}}, n - 1)

\* the graph rebuilt from doc has a cycle
HasCycle(doc) ==
  \E p \in PathsOf(EdgesOf(doc), EdgesOf(doc), Len(SchemasOf(doc).e)) :
    p[1] = p[2]

\* C26: for a document whose schema references all lie below the root of
\* their schema's body, below keys that are not made of digits and hold no
\* '/', one pass of build_reference_graph, detect_cycles, find_breaking_points
\* and remove_circular_references gives a document whose rebuilt graph has no
\* cycle, also when the cycles of the input share edges.
C26_OnePass ==
  (pc = "done" /\ BelowPlainKeys(input)) => ~HasCycle(heap[result])

\* ------------------------------------------- claims: the round trip
\* C27: every location build_reference_graph records for an edge S -> T is
\* resolved by remove_ref, from the body of S in the same document, to the
\* mapping that holds that reference, which is rewritten; also for a
\* reference that is the whole body, one below a key made of digits and one
\* below a key holding '/'.
C27_RoundTrip ==
  pc = "detect" =>
    \A s \in 1..Len(SchemasOf(input).e) :
      LET S == SchemasOf(input).e[s].key
          body == SchemasOf(input).e[s].v
      IN \A o \in Occurrences(body) :
           \A loc \in StoredUnder(locations, S \o <<" -> ">> \o o.ref) :
             LET r == RemoveRef(body, o.ref, loc)
             IN /\ r.ok
                /\ \E x \in Occurrences(body) :
                     /\ x.ref = o.ref /\ PathTo(body, x.pos) = loc
                     /\ Occurrences(r.obj) = Occurrences(body) \ {x}

\* ------------------------------------------- claims: running twice
\* C23: a second run of extract_paths, collect_referenced_components and the
\* property removal on the same in-memory document, for the same paths, ends
\* and gives the paths and the closure the first run gave, entry by entry in
\* the same order.
C23_Idempotent ==
  [][pc = "pruned" =>
       /\ pc' = "rerun"
       /\ extracted_paths' = extracted_paths
       /\ referenced_components' = referenced_components]_vars

\* C28: when the detected cycles include several rotations of one simple
\* cycle, find_breaking_points selects the same break edge for all of them,
\* also when the edges of the cycle have equal numbers of locations.
C28_OneEdgePerCycle ==
  PointsFound =>
    \A i, j \in 1..Len(breaking_points) :
      SameCycle(breaking_points[i].cycle, breaking_points[j].cycle) =>
        breaking_points[i].break_edge = breaking_points[j].break_edge

\* ------------------------------------------- claims: the frame
RECURSIVE Differences(_, _)
\* where b differs from a: the topmost places, each as the entries to follow
Differences(a, b) ==
  IF a = b THEN {}
  ELSE IF /\ a.k = b.k /\ a.k # "str" /\ Len(a.e) = Len(b.e)
          /\ \A i \in 1..Len(a.e) : a.e[i].key = b.e[i].key
  THEN UNION {{<<i>> \o d : d \in Differences(a.e[i].v, b.e[i].v)} :
              i \in 1..Len(a.e)}
  ELSE {<<>>}

\* the locations the breaking points list for edges out of schema src
ListedFor(src) ==
  UNION {SeqRange(breaking_points[i].locations) :
         i \in {x \in 1..Len(breaking_points) :
                  breaking_points[x].break_edge[1] = src}}

\* C29: the document remove_circular_references returns differs from its input
\* only at listed locations of break edges: the schema names, the body of
\* every schema that is the source of no break edge and everything outside
\* components.schemas are unchanged, and the graph rebuilt from the output has
\* no edge the graph of the input lacks.
C29_Frame ==
  pc = "done" =>
    LET before == SchemasOf(input)
        after == SchemasOf(heap[result])
    IN /\ Len(after.e) = Len(before.e)
       /\ \A s \in 1..Len(before.e) :
            /\ after.e[s].key = before.e[s].key
            /\ ListedFor(before.e[s].key) = {} => after.e[s].v = before.e[s].v
            /\ \A d \in Differences(before.e[s].v, after.e[s].v) :
                 PathTo(before.e[s].v, d) \in ListedFor(before.e[s].key)
       /\ Differences(input, heap[result]) \subseteq
            {<<KeyIndex(input, <<"components">>),
               KeyIndex(Get(input, <<"components">>), <<"schemas">>)>> \o d :
               d \in Differences(before, after)}
       /\ EdgesOf(heap[result]) \subseteq EdgesOf(input)

\* a reference was rewritten and a listed location was left as it was
C29_Witness ==
  /\ pc = "done" /\ removed_refs # <<>>
  /\ Differences(input, heap[result]) # {}
  /\ EdgesOf(heap[result]) # EdgesOf(input)
  /\ \E i \in 1..Len(breaking_points) :
       Len(breaking_points[i].locations) = 2

\* ------------------------------------------- claims: the log
\* the (break edge, location) pairs of the breaking points
ListedPairs ==
  UNION {{<<breaking_points[i].break_edge, l>> :
            l \in SeqRange(breaking_points[i].locations)} :
         i \in 1..Len(breaking_points)}

\* C30: a record (source, target, location) is appended to the log if and
\* only if the step rewrote the leaf at that location; the records of the log
\* are pairwise distinct, also when several breaking points select the same
\* edge; and the log never holds more records than there are distinct
\* (break edge, location) pairs over all breaking points.
C30_LoggedOnce ==
  /\ [][pc = "remove" =>
          IF heap'[result] # heap[result]
          THEN /\ AtLocation
               /\ removed_refs' =
                    Append(removed_refs,
                           [source_schema |-> CurSrc, target_schema |-> CurDst,
                            path |-> CurLocation])
          ELSE removed_refs' = removed_refs]_vars
  /\ [](/\ \A i, j \in 1..Len(removed_refs) :
             i # j => removed_refs[i] # removed_refs[j]
        /\ Len(removed_refs) <= Cardinality(ListedPairs))

\* two breaking points select one edge and list one location, logged once
C30_Witness ==
  /\ pc = "done" /\ Len(breaking_points) = 2
  /\ breaking_points[1].break_edge = breaking_points[2].break_edge
  /\ breaking_points[1].locations = breaking_points[2].locations
  /\ Len(breaking_points[1].locations) = 1
  /\ Len(removed_refs) = 1
  /\ removed_refs[1].path = breaking_points[1].locations[1]

\* ------------------------------------------- claims: failures in a pass
\* part selects nothing in current: no such key, no such index
Missing(current, part) ==
  \/ IsStr(current)
  \/ IsDict(current) /\ \A i \in 1..Len(current.e) : current.e[i].key # part
  \/ IsList(current) /\ (~IsDigit(part) \/ ToInt(part) >= Len(current.e))

\* what part selects in current
Selected(current, part) ==
  IF IsList(current) THEN current.e[ToInt(part) + 1].v
  ELSE current.e[CHOOSE i \in 1..Len(current.e) : current.e[i].key = part].v

RECURSIVE Unresolved(_, _)
\* some segment of parts selects nothing on the way down from current
Unresolved(current, parts) ==
  /\ parts # <<>>
  /\ \/ Missing(current, parts[1])
     \/ Unresolved(Selected(current, parts[1]), Tail(parts))

\* leaf is a reference mapping whose value is '#/components/schemas/<dst>'
MatchesTarget(leaf, dst) ==
  /\ leaf.k = "dict"
  /\ \E i \in 1..Len(leaf.e) :
       /\ leaf.e[i].key = <<"$ref">>
       /\ leaf.e[i].v = StrNode(<<"#", "/", "components", "/", "schemas", "/">> \o dst)

\* the loop is at a location of a breaking point whose source schema the
\* document has
AtSegments ==
  /\ AtLocation /\ CurLocation # <<>>
  /\ HasKey(SchemasOf(heap[result]), CurSrc)

\* C16: a location with a segment that cannot be resolved (a key the mapping
\* lacks, an index past the end of the list) changes nothing in the document
\* and appends no record, and the pass goes on: the loop moves to the next
\* location, a breaking point is left only when its locations are exhausted,
\* and the pass returns only when the breaking points are.
C16_UnresolvedSkipped ==
  /\ [][(AtSegments /\ Unresolved(Get(SchemasOf(heap[result]), CurSrc),
                                  Split(Strip(CurLocation)))) =>
          /\ heap' = heap /\ removed_refs' = removed_refs
          /\ pc' = "remove" /\ bp_i' = bp_i /\ loc_i' = loc_i + 1
          /\ breaking_points' = breaking_points]_vars
  /\ [][(pc = "remove" /\ bp_i' # bp_i /\ pc' = "remove") =>
          /\ loc_i > Len(breaking_points[bp_i].locations)
          /\ bp_i' = bp_i + 1 /\ loc_i' = 1]_vars
  /\ [][(pc = "remove" /\ pc' = "done") => bp_i > Len(breaking_points)]_vars

\* the first breaking point holds an index past the end of the list and
\* nothing else; the reference at allOf/1, a location of the second breaking
\* point, was removed after it
C16_Witness ==
  /\ pc = "done" /\ ~reapplied
  /\ Len(breaking_points) = 2
  /\ breaking_points[1].break_edge[1] = Name(1)
  /\ breaking_points[1].locations = <<<<"allOf", "/", "2">>>>
  /\ HasKey(Get(SchemasOf(input), Name(1)), <<"allOf">>)
  /\ removed_refs = <<[source_schema |-> Name(1), target_schema |-> Name(2),
                       path |-> <<"allOf", "/", "1">>]>>

\* C17: when a location resolves but the leaf there is not a reference to the
\* expected target, the document is left as it is and no record is appended;
\* and a call of remove_circular_references on its own output with the same
\* breaking points works on a document that stays identical to that output,
\* with an empty removed-reference list.
C17_MismatchSkipped ==
  /\ [][(/\ AtSegments
         /\ ~Unresolved(Get(SchemasOf(heap[result]), CurSrc),
                        Split(Strip(CurLocation)))
         /\ ~MatchesTarget(CurLeaf, CurDst)) =>
          (heap' = heap /\ removed_refs' = removed_refs)]_vars
  /\ [](reapplied => (heap[result] = input /\ removed_refs = <<>>))

\* the second call returned, having met a placeholder of the first call at a
\* location of a breaking point
C17_Witness ==
  /\ pc = "done" /\ reapplied
  /\ \E b \in 1..Len(breaking_points) :
       /\ HasKey(SchemasOf(heap[result]), breaking_points[b].break_edge[1])
       /\ \E l \in 1..Len(breaking_points[b].locations) :
            IsPlaceholderFor(
              LeafAt(Get(SchemasOf(heap[result]), breaking_points[b].break_edge[1]),
                     Split(Strip(breaking_points[b].locations[l]))),
              breaking_points[b].break_edge[2])

\* C18: no core operation raises: whatever the document, build_reference_graph,
\* detect_cycles, find_breaking_points and remove_circular_references all
\* return.
C18_NeverRaises == pc # "raised"

\* the keys of a mapping
KeysOf(x) == {x.e[i].key : i \in 1..Len(x.e)}

\* component has nothing called prop: no key of its own, no key of its
\* properties, no key of the properties of an item of its allOf
Lacks(component, prop) ==
  /\ prop \notin KeysOf(component)
  /\ \A i \in 1..Len(component.e) :
       /\ (component.e[i].key = <<"properties">> /\ component.e[i].v.k = "dict")
            => prop \notin KeysOf(component.e[i].v)
       /\ (component.e[i].key = <<"allOf">> /\ component.e[i].v.k = "list")
            => \A j \in 1..Len(component.e[i].v.e) :
                 \A h \in 1..Len(component.e[i].v.e[j].v.e) :
                   (/\ component.e[i].v.e[j].v.k = "dict"
                    /\ component.e[i].v.e[j].v.e[h].key = <<"properties">>
                    /\ component.e[i].v.e[j].v.e[h].v.k = "dict")
                     => prop \notin KeysOf(component.e[i].v.e[j].v.e[h].v)

\* the components of the closure that are called name, as (type, body) pairs
Targets(referenced, name) ==
  {<<referenced.e[t].key, referenced.e[t].v.e[n].v>> :
     <<t, n>> \in {x \in (1..Len(referenced.e)) \X (1..3) :
                     /\ x[2] <= Len(referenced.e[x[1]].v.e)
                     /\ referenced.e[x[1]].v.e[x[2]].key = name}}

\* the loop is at an instruction
AtInstruction == pc = "prune" /\ inst_i <= Len(properties_to_remove)

CurInstruction == properties_to_remove[inst_i]

\* the instruction names no component of the closure, or only properties its
\* components lack
IsNoOp(referenced, instruction) ==
  \A target \in Targets(referenced, instruction.name) :
    \A i \in 1..Len(instruction.properties) :
      Lacks(target[2], instruction.properties[i])

\* what the instruction names is gone from where the function looks for it:
\* the component's own keys, and its properties or else its allOf items
Applied(referenced, instruction) ==
  \A target \in Targets(referenced, instruction.name) :
    \A i \in 1..Len(instruction.properties) :
      LET c == target[2]
          prop == instruction.properties[i]
      IN /\ prop \notin KeysOf(c)
         /\ <<"properties">> \in KeysOf(c) =>
              prop \notin KeysOf(Get(c, <<"properties">>))
         /\ (<<"properties">> \notin KeysOf(c) /\ <<"allOf">> \in KeysOf(c)) =>
              \A j \in 1..Len(Get(c, <<"allOf">>).e) :
                LET item == Get(c, <<"allOf">>).e[j].v
                IN (item.k = "dict" /\ <<"properties">> \in KeysOf(item)) =>
                     prop \notin KeysOf(Get(item, <<"properties">>))

\* C19: in remove_component_properties, an instruction that names a property
\* the target component does not have, or a component that is not in the
\* closure, changes nothing and raises nothing, and the loop goes on to the
\* next instruction; every instruction of the batch is carried out: the
\* function returns only after the last one, and each leaves what it names
\* removed.
C19_AbsentIsNoOp ==
  /\ [][(AtInstruction /\ IsNoOp(referenced_components, CurInstruction)) =>
          /\ referenced_components' = referenced_components
          /\ api_spec' = api_spec
          /\ pc' = "prune" /\ inst_i' = inst_i + 1]_vars
  /\ [][AtInstruction =>
          /\ pc' = "prune" /\ inst_i' = inst_i + 1
          /\ Applied(referenced_components', CurInstruction)]_vars
  /\ [](pc = "pruned" => inst_i > Len(properties_to_remove))

\* the batch named a property schema B lacks, then property id of schema A:
\* id is gone from A, name is still there
C19_Witness ==
  /\ pc = "pruned"
  /\ properties_to_remove =
       <<[name |-> Name(2), properties |-> <<<<"zz">>>>],
         [name |-> Name(1), properties |-> <<<<"id">>>>]>>
  /\ \E a \in {Get(Get(referenced_components, <<"schemas">>), Name(1))} :
       /\ HasKey(a, <<"properties">>)
       /\ KeysOf(Get(a, <<"properties">>)) = {<<"name">>}

\* the spec has the path
ContainsPath(spec, path) ==
  \E i \in 1..Len(spec.e) :
    spec.e[i].key = <<"paths">> /\ path \in KeysOf(spec.e[i].v)

\* the operations of the path that the methods ask for, by method name
RequestedOps(spec, path, methods) ==
  LET item == Get(Get(spec, <<"paths">>), path)
  IN {item.e[i] : i \in {x \in 1..Len(item.e) :
                           \E m \in 1..Len(methods) :
                             Lower(methods[m]) = item.e[x].key}}

\* the spec has the path with one of the methods
Offers(spec, path, methods) ==
  ContainsPath(spec, path) /\ RequestedOps(spec, path, methods) # {}

\* the components of spec that the references reachable from those
\* operations name
ClosureNames(spec, path, methods) ==
  UNION {TargetsOf(spec, r) :
           r \in ReachFrom(spec, UNION {AllRefs(op.v) :
                                          op \in RequestedOps(spec, path, methods)})}

\* the first input spec that offers the i-th required path, 0 when none does
SourceOf(i) ==
  LET offering == {s \in 1..Len(specs) :
                     Offers(specs[s], required_paths_methods[i].path,
                            required_paths_methods[i].methods)}
  IN IF offering = {} THEN 0
     ELSE CHOOSE s \in offering : \A t \in offering : s <= t

\* component c is in the combined output, with the body of a spec that a
\* required path took it from
InCombined(c) ==
  /\ HasKey(combined_components, c[1])
  /\ HasKey(Get(combined_components, c[1]), c[2])
  /\ \E j \in 1..Len(required_paths_methods) :
       /\ SourceOf(j) # 0
       /\ c \in ClosureNames(specs[SourceOf(j)], required_paths_methods[j].path,
                             required_paths_methods[j].methods)
       /\ Get(Get(combined_components, c[1]), c[2])
            = ComponentBody(specs[SourceOf(j)], c)

Warned(path) == \E i \in 1..Len(warnings) : warnings[i] = path

\* C20: in process_combined_specs, a required path that is absent from every
\* input spec produces a warning and no failure: every other required path
\* that some input spec contains is in the combined output, with the
\* components of its closure.
C20_ContainedExtracted ==
  pc = "combined" =>
    \A i \in 1..Len(required_paths_methods) :
      (\A s \in 1..Len(specs) :
         ~ContainsPath(specs[s], required_paths_methods[i].path)) =>
        /\ Warned(required_paths_methods[i].path)
        /\ \A j \in 1..Len(required_paths_methods) :
             (\E s \in 1..Len(specs) :
                ContainsPath(specs[s], required_paths_methods[j].path)) =>
               /\ required_paths_methods[j].path \in KeysOf(combined_paths)
               /\ SourceOf(j) # 0
               /\ \A c \in ClosureNames(specs[SourceOf(j)],
                                        required_paths_methods[j].path,
                                        required_paths_methods[j].methods) :
                    InCombined(c)

\* ------------------------------------------ resolve_openapi_circular_refs
Init ==
  /\ pc = "build"
  /\ IsDocument(input)
  /\ heap = [caller |-> input, copy |-> EmptyDoc]
  /\ result = "caller"
  /\ graph = <<>> /\ locations = <<>>
  /\ roots = 1 /\ stack = <<>> /\ cycles = <<>> /\ unique_cycles = <<>>
  /\ expanded = [n \in {} |-> 0]
  /\ breaking_points = <<>> /\ bp_i = 1 /\ loc_i = 1 /\ removed_refs = <<>>
  /\ reapplied = FALSE
  /\ ClosureIdle

Next ==
  \/ BuildReferenceGraph
  \/ DetectCycles
  \/ FindPoints
  \/ CopySpec
  \/ RemoveLocation
  \/ NextPoint
  \/ RemoveReturn

Spec == Init /\ [][Next]_vars

FairSpec == Spec /\ WF_vars(Next)

\* --------------------------------------------- documents for one pass
\* bodies with a reference to t below an empty key: the last key on the way,
\* and the first
EmptyKeyBodies(t) ==
  {Props(<<>>, Ref(t)),
   DictNode(<<Entry(<<>>, DictNode(<<Entry(<<"p">>, Ref(t))>>))>>)}

\* resolve_openapi_circular_refs called on a document, or on one whose schema
\* A has such a body
InitPass ==
  /\ pc = "build"
  /\ \/ IsDocument(input)
     \/ \E t \in SchemaNames, u \in {Name(1), Name(3)} :
          \E a \in EmptyKeyBodies(t) :
            input = Document(<<Entry(Name(1), a),
                               Entry(Name(2), Props(<<"p">>, Ref(u)))>>)
  /\ heap = [caller |-> input, copy |-> EmptyDoc]
  /\ result = "caller"
  /\ graph = <<>> /\ locations = <<>>
  /\ roots = 1 /\ stack = <<>> /\ cycles = <<>> /\ unique_cycles = <<>>
  /\ expanded = [n \in {} |-> 0]
  /\ breaking_points = <<>> /\ bp_i = 1 /\ loc_i = 1 /\ removed_refs = <<>>
  /\ reapplied = FALSE
  /\ ClosureIdle

SpecPass == InitPass /\ [][Next]_vars

====
